---------------------------- MODULE Spec2Model ----------------------------
(***************************************************************************)
(* A model of the diff engine of mpieuchot/diff: the line atomiser         *)
(* (diff_atomize_text.c), the algorithm framework (diff_main.c), Myers     *)
(* full trace and Myers divide-and-conquer (diff_myers.c) and Patience     *)
(* (diff_patience.c).                                                      *)
(*                                                                         *)
(* Buffers are sequences of byte values, atoms are {at, len, hash}         *)
(* records over a buffer, pointers to atoms are indexes into the root      *)
(* atom table (NullAtom is the NULL pointer).  The accessor macros         *)
(* DD_ATOM_NB, DD_ATOM_AT, DD_ATOM_FIRST and DD_ATOM_INDEX used by         *)
(* diff_main.c and diff_patience.c are read as atoms.len, &atoms.head[i],  *)
(* &atoms.head[0] and pointer difference to atoms.head.                    *)
(***************************************************************************)
EXTENDS Integers, Sequences, FiniteSets, TLC

VARIABLES
    input,      \* what the caller passes to diff_main and the environment it runs in
    pc,         \* position of the diff_main call: "start", "run", "done", "crashed"
    result,     \* struct diff_result: rc, the two root atom tables, chunks
    stack,      \* the nested diff_run_algo calls, innermost last
    heap,       \* number of heap allocations that still succeed (NoLimit: all)
    lastRun,    \* history: the most recent algorithm implementation call
    abuf, apast, apos, aatoms   \* the stand-alone atomiser run: buffer, byte after it, position, atoms

vars == <<input, pc, result, stack, heap, lastRun, abuf, apast, apos, aatoms>>

-----------------------------------------------------------------------------
(* Bounds of the model *)

MaxLines == 3       \* lines per input buffer
MaxDepth == 2       \* largest explicit max_recursion_depth
MaxHeap == 6        \* largest number of allocations before malloc starts failing
MaxBytes == 4       \* buffer length of the stand-alone atomiser runs

(* Program constants *)

DIFF_RC_OK == 0
DIFF_RC_ENOMEM == 12
DIFF_RC_EINVAL == 22
DIFF_RC_USE_DIFF_ALGO_FALLBACK == 0 - 1
DIFF_RESULT_ALLOC_BLOCKSIZE == 128
DefaultBlocksize == 8
DefaultRecursionDepth == 1024
HashFactor == 23
SizeofInt == 4
DefaultStateSize == 1024 * 1024 * SizeofInt     \* diff.c: myers.permitted_state_size
SmallStateSize == (2 * 3 + 1) * (2 * 3 + 1) * SizeofInt \* a budget that fits L + R <= 3

LF == 10
CR == 13

(* unsigned int values are held as the int with the same 32 bits: a negative
   n stands for 2^32 + n.  The unsigned comparison a < b: *)
ULess(a, b) ==
    IF a >= 0 THEN b < 0 \/ a < b
    ELSE b < 0 /\ a < b

(* an unsigned int hash as its two 16-bit halves; hash * 23 + byte in 32 bits *)
HalfMod == 65536
HashZero == [hi |-> 0, lo |-> 0]
(* a fold that adds the byte before it multiplies *)
MutantHashStep(hash, byte) ==
    LET lo == (hash.lo + byte) * HashFactor
    IN [hi |-> (hash.hi * HashFactor + lo \div HalfMod) % HalfMod, lo |-> lo % HalfMod]

HashStep(hash, byte) ==
    LET lo == hash.lo * HashFactor + byte
    IN [hi |-> (hash.hi * HashFactor + lo \div HalfMod) % HalfMod, lo |-> lo % HalfMod]

NullAtom == 0 - 1       \* the NULL struct diff_atom pointer
NoLimit == 0 - 1        \* heap: every allocation succeeds
Unmapped == 0 - 1       \* the byte after a buffer lies in an unmapped page

Min(a, b) == IF a < b THEN a ELSE b
Max(a, b) == IF a > b THEN a ELSE b

-----------------------------------------------------------------------------
(* arraylist.h *)

ARRAYLIST_INIT(nelems) ==
    [null |-> TRUE, items |-> <<>>, len |-> 0, allocated |-> 0, blocksize |-> nelems]

(* one allocation against the heap budget h *)
AllocOk(h) == h # 0
AfterAlloc(h) == IF h > 0 THEN h - 1 ELSE h

(* ARRAYLIST_ADD of elm under heap budget h.  Returns the list, ok (FALSE
   when elm == NULL) and the heap left.  A failed recallocarray leaves head
   NULL, allocated raised and len unchanged. *)
NeedsAlloc(alh) == alh.null \/ alh.allocated < alh.len + 1

ARRAYLIST_ADD(alh, h, elm) ==
    IF alh.len > 0 /\ alh.allocated = 0
    THEN [list |-> alh, ok |-> FALSE, heap |-> h]
    ELSE LET grown == IF NeedsAlloc(alh)
                      THEN [alh EXCEPT
                              !.allocated = @ + (IF alh.blocksize # 0 THEN alh.blocksize
                                                 ELSE DefaultBlocksize),
                              !.null = ~AllocOk(h),
                              !.items = IF AllocOk(h) THEN @ ELSE <<>>]
                      ELSE alh
             h2 == IF NeedsAlloc(alh) THEN AfterAlloc(h) ELSE h
         IN IF grown.null \/ grown.allocated < grown.len + 1
            THEN [list |-> grown, ok |-> FALSE, heap |-> h2]
            ELSE [list |-> [grown EXCEPT !.items = Append(@, elm), !.len = @ + 1],
                  ok |-> TRUE, heap |-> h2]

ARRAYLIST_FREE(alh) == ARRAYLIST_INIT(alh.blocksize)

-----------------------------------------------------------------------------
(* diff_atomize_text.c *)

(* data[i] for a 0-based offset i; offset Len(data) is the byte after the
   buffer (past), which the atomiser may read. *)
ByteAt(data, past, i) == IF i < Len(data) THEN data[i + 1] ELSE past

(* the inner while loop: scan to the line terminator, folding the hash *)
RECURSIVE ScanLine(_, _, _)
ScanLine(data, line_end, hash) ==
    IF line_end < Len(data) /\ data[line_end + 1] # CR /\ data[line_end + 1] # LF
    THEN ScanLine(data, line_end + 1, HashStep(hash, data[line_end + 1]))
    ELSE [line_end |-> line_end, hash |-> hash]

(* after the terminator byte was consumed: "If that was an '\r', also pull in
   any following '\n'", tested on the byte at line_end *)
PullLF(data, past, le1) ==
    IF ByteAt(data, past, le1) = CR /\ le1 < Len(data) /\ ByteAt(data, past, le1 + 1) = LF
    THEN le1 + 1 ELSE le1

(* One iteration of the outer loop from pos: the atom found; overread: the
   iteration reads the byte at offset Len(data), as line_end[0] with
   line_end == end or as line_end[1]; mustread: the value of that byte
   decides the test (line_end[0] == '\r' and line_end < end hold), so every
   build reads it.  With line_end == end the test is false whatever the byte
   is, and a build may decide it without the read. *)
AtomizeLine(data, past, pos) ==
    LET s == ScanLine(data, pos, HashZero)
        le1 == IF s.line_end < Len(data) THEN s.line_end + 1 ELSE s.line_end
        le2 == PullLF(data, past, le1)
        mustread == le1 < Len(data) /\ data[le1 + 1] = CR /\ le1 + 1 = Len(data)
    IN [atom |-> [at |-> pos, len |-> le2 - pos, hash |-> s.hash],
        next |-> le2, overread |-> le1 = Len(data) \/ mustread, mustread |-> mustread]

(* does the iteration die on its read of the byte after the buffer?
   readfirst: the build reads line_end[0] before it tests line_end < end *)
AtomizeTraps(a, past, readfirst) ==
    past = Unmapped /\ (a.mustread \/ (a.overread /\ readfirst))

AtomBlocksize(dlen) ==
    LET RECURSIVE Pow2(_, _)
        Pow2(est, p) == IF est \div 2 # 0 THEN Pow2(est \div 2, p + 1) ELSE p
    IN 2 ^ Pow2(dlen \div 50, 1)

(* diff_data_atomize_text_lines: rc, the atom list, the heap left, and trap
   when a read of the byte after the buffer hit an unmapped page. *)
RECURSIVE AtomizeFrom(_, _, _, _, _, _)
AtomizeFrom(data, past, readfirst, pos, atoms, h) ==
    IF pos >= Len(data)
    THEN [rc |-> DIFF_RC_OK, atoms |-> atoms, heap |-> h, trap |-> FALSE]
    ELSE LET a == AtomizeLine(data, past, pos)
             add == ARRAYLIST_ADD(atoms, h, a.atom)
         IN IF AtomizeTraps(a, past, readfirst)
            THEN [rc |-> DIFF_RC_OK, atoms |-> atoms, heap |-> h, trap |-> TRUE]
            ELSE IF ~add.ok
            THEN [rc |-> DIFF_RC_ENOMEM, atoms |-> add.list, heap |-> add.heap, trap |-> FALSE]
            ELSE AtomizeFrom(data, past, readfirst, a.next, add.list, add.heap)

diff_data_atomize_text_lines(data, past, readfirst, h) ==
    AtomizeFrom(data, past, readfirst, 0, ARRAYLIST_INIT(AtomBlocksize(Len(data))), h)

(* diff_atomize_text_by_line: left, then right *)
diff_atomize_text_by_line(ldata, rdata, past, readfirst, h) ==
    LET l == diff_data_atomize_text_lines(ldata, past, readfirst, h)
        r == diff_data_atomize_text_lines(rdata, past, readfirst, l.heap)
        none == ARRAYLIST_INIT(0)
    IN IF l.trap \/ l.rc # DIFF_RC_OK
       THEN [rc |-> l.rc, left |-> l.atoms, right |-> none, heap |-> l.heap, trap |-> l.trap]
       ELSE [rc |-> r.rc, left |-> l.atoms, right |-> r.atoms, heap |-> r.heap, trap |-> r.trap]

(* diff_atom_same: hash, length, then memcmp of the bytes *)
AtomBytes(data, a) == SubSeq(data, a.at + 1, a.at + a.len)

diff_atom_same(ldata, l, rdata, r) ==
    /\ l.hash = r.hash
    /\ l.len = r.len
    /\ AtomBytes(ldata, l) = AtomBytes(rdata, r)

-----------------------------------------------------------------------------
(* diff_main.h, diff_main.c: views, chunks, diff_state_add_chunk *)

(* A struct diff_data view of a root table: atoms.head as an index into the
   root table (NullAtom for NULL) and atoms.len. *)
View(head, len) == [head |-> head, len |-> len]

(* DD_ATOM_AT(view, i): pointer arithmetic on atoms.head *)
DD_ATOM_AT(view, i) == view.head + i

(* The context of a run: both buffers and both root atom tables. *)
Context(in, res) ==
    [ld |-> in.left, rd |-> in.right, la |-> res.left.items, ra |-> res.right.items]

(* diff_atom_same on the x-th atom of the left view and the y-th of the right *)
ViewSame(cx, left, right, x, y) ==
    diff_atom_same(cx.ld, cx.la[DD_ATOM_AT(left, x) + 1],
                   cx.rd, cx.ra[DD_ATOM_AT(right, y) + 1])

(* Does reading atoms [0, n) of a view stay inside its root table?  (n is an
   unsigned int.) *)
InTable(table, view, n) ==
    n = 0 \/ (n > 0 /\ view.head >= 0 /\ view.head + n <= Len(table))

(* struct diff_chunk; the counts are unsigned int *)
Chunk(solved, left_start, left_count, right_start, right_count) ==
    [solved |-> solved,
     left_start |-> left_start, left_count |-> left_count,
     right_start |-> right_start, right_count |-> right_count]

(* a diff_state_add_chunk that writes every solved chunk into
   result->chunks, whatever temp_result holds *)
MutantAddSolvedDirect(st, c) ==
    IF c.solved
    THEN LET add == ARRAYLIST_ADD(st.chunks, st.heap, c)
         IN [chunks |-> add.list, temp |-> st.temp, heap |-> add.heap, ok |-> add.ok]
    ELSE LET add == ARRAYLIST_ADD(st.temp, st.heap, c)
         IN [chunks |-> st.chunks, temp |-> add.list, heap |-> add.heap, ok |-> add.ok]

(* a diff_state_add_chunk that writes every chunk into result->chunks *)
MutantAddChunkDirect(st, c) ==
    LET add == ARRAYLIST_ADD(st.chunks, st.heap, c)
    IN [chunks |-> add.list, temp |-> st.temp, heap |-> add.heap, ok |-> add.ok]

(* diff_state_add_chunk on st = [chunks, temp, heap]: a solved chunk goes to
   result->chunks while temp_result is empty, everything else to temp_result. *)
diff_state_add_chunk(st, c) ==
    IF c.solved /\ st.temp.len = 0
    THEN LET add == ARRAYLIST_ADD(st.chunks, st.heap, c)
         IN [chunks |-> add.list, temp |-> st.temp, heap |-> add.heap, ok |-> add.ok]
    ELSE LET add == ARRAYLIST_ADD(st.temp, st.heap, c)
         IN [chunks |-> st.chunks, temp |-> add.list, heap |-> add.heap, ok |-> add.ok]

(* The diff_state_add_chunk calls of one algorithm run, in order, stopping
   at the first one that returns NULL. *)
RECURSIVE AddChunks(_, _)
AddChunks(st, adds) ==
    IF adds = <<>> THEN [chunks |-> st.chunks, temp |-> st.temp, heap |-> st.heap, ok |-> TRUE]
    ELSE LET r == diff_state_add_chunk(st, Head(adds))
         IN IF r.ok THEN AddChunks([chunks |-> r.chunks, temp |-> r.temp, heap |-> r.heap],
                                   Tail(adds))
            ELSE r

-----------------------------------------------------------------------------
(* diff_main.c: diff_algo_none *)

RECURSIVE EqualAtoms(_, _, _, _)
EqualAtoms(cx, left, right, n) ==
    IF ULess(n, left.len) /\ ULess(n, right.len) /\ ViewSame(cx, left, right, n, n)
    THEN EqualAtoms(cx, left, right, n + 1)
    ELSE n

(* the chunks diff_algo_none adds, in order *)
diff_algo_none(cx, left, right) ==
    LET equal_atoms == EqualAtoms(cx, left, right, 0)
    IN (IF equal_atoms # 0
        THEN <<Chunk(TRUE, DD_ATOM_AT(left, 0), equal_atoms,
                     DD_ATOM_AT(right, 0), equal_atoms)>>
        ELSE <<>>)
       \o (IF ULess(equal_atoms, left.len)
           THEN <<Chunk(TRUE, DD_ATOM_AT(left, equal_atoms), left.len - equal_atoms,
                        NullAtom, 0)>>
           ELSE <<>>)
       \o (IF ULess(equal_atoms, right.len)
           THEN <<Chunk(TRUE, NullAtom, 0,
                        DD_ATOM_AT(right, equal_atoms), right.len - equal_atoms)>>
           ELSE <<>>)

-----------------------------------------------------------------------------
(* diff_myers.c: diff_algo_myers, the full-trace Myers algorithm *)

(* kd_buf is a flat int array; index i of the C array is element i + 1. *)
KdGet(kd, i) == kd[i + 1]
KdSet(kd, i, v) == [kd EXCEPT ![i + 1] = v]

xk_to_y(x, k) == x - k
xc_to_y(x, c, delta) == x - c + delta
k_to_c(k, delta) == k + delta
c_to_k(c, delta) == c - delta

(* the snake: while (x < left.len && y < right.len && same) x++, the
   comparisons being unsigned *)
RECURSIVE SlideForward(_, _, _, _, _)
SlideForward(cx, left, right, x, k) ==
    IF /\ x >= 0 /\ x < left.len
       /\ xk_to_y(x, k) >= 0 /\ xk_to_y(x, k) < right.len
       /\ ViewSame(cx, left, right, x, xk_to_y(x, k))
    THEN SlideForward(cx, left, right, x + 1, k)
    ELSE x

(* a tie-break that takes k - 1 only when it is more than one ahead of k + 1 *)
MutantForwardFromBelow(right, d, k, kd, prev) ==
    k > 0 - d /\ (k = d \/ (k - 1 >= 0 - right.len
                            /\ KdGet(kd, prev + k - 1) > KdGet(kd, prev + k + 1) + 1))

(* which neighbour diagonal a forward step derives from: TRUE for k - 1
   (a deletion, x = prev_x + 1), FALSE for k + 1 (an insertion); prev is the
   offset of the previous column in kd. *)
ForwardFromBelow(right, d, k, kd, prev) ==
    k > 0 - d /\ (k = d \/ (k - 1 >= 0 - right.len
                            /\ KdGet(kd, prev + k - 1) >= KdGet(kd, prev + k + 1)))

(* the forward pass: columns d = 0 .. max, diagonals k = d, d-2 .. -d *)
RECURSIVE MyersForward(_, _, _, _, _, _)
MyersForward(cx, left, right, d, k, kd) ==
    LET max == left.len + right.len
        kd_len == max + 1 + max
        col == max + d * kd_len
        prev == col - kd_len
    IN IF d > max THEN [kd |-> kd, backtrack_d |-> 0 - 1, backtrack_k |-> 0]
       ELSE IF k < 0 - d THEN MyersForward(cx, left, right, d + 1, d + 1, kd)
       ELSE IF k < 0 - right.len \/ k > left.len
       THEN IF k < 0 THEN MyersForward(cx, left, right, d + 1, d + 1, kd)
            ELSE MyersForward(cx, left, right, d, k - 2, kd)
       ELSE LET x0 == IF d = 0 THEN 0
                      ELSE IF ForwardFromBelow(right, d, k, kd, prev)
                           THEN KdGet(kd, prev + k - 1) + 1
                           ELSE KdGet(kd, prev + k + 1)
                x == SlideForward(cx, left, right, x0, k)
                kd2 == KdSet(kd, col + k, x)
            IN IF x = left.len /\ xk_to_y(x, k) = right.len
               THEN [kd |-> kd2, backtrack_d |-> d, backtrack_k |-> k]
               ELSE MyersForward(cx, left, right, d, k - 2, kd2)

(* a backtrace that goes back over a deletion whenever both predecessors
   lead to the same position *)
MutantBacktraceDeletionLast(x, y, k, kd, prev) ==
    y = 0 \/ (x > 0 /\ KdGet(kd, prev + k - 1) + 1 >= KdGet(kd, prev + k + 1))

(* a backtrace that breaks the tie between the two predecessors the other way *)
MutantBacktraceFromBelow(x, y, k, kd, prev) ==
    y = 0 \/ (x > 0 /\ KdGet(kd, prev + k - 1) > KdGet(kd, prev + k + 1))

(* the backtrace's choice of the predecessor diagonal k - 1 over k + 1 *)
BacktraceFromBelow(x, y, k, kd, prev) ==
    y = 0 \/ (x > 0 /\ KdGet(kd, prev + k - 1) >= KdGet(kd, prev + k + 1))

(* the backtrace: stores each step's x, y in kd_column[0], kd_column[1] *)
RECURSIVE MyersBacktrace(_, _, _, _)
MyersBacktrace(max, d, k, kd) ==
    LET kd_len == max + 1 + max
        col == max + d * kd_len
        prev == col - kd_len
        x == KdGet(kd, col + k)
        y == xk_to_y(x, k)
        kd2 == KdSet(KdSet(kd, col, x), col + 1, y)
    IN IF d < 0 THEN kd
       ELSE IF d = 0 THEN kd2
       ELSE IF BacktraceFromBelow(x, y, k, kd2, prev)
       THEN MyersBacktrace(max, d - 1, k - 1, kd2)
       ELSE MyersBacktrace(max, d - 1, k + 1, kd2)

(* the chunks of the final loop over the backtrace, with the rc it ends in *)
RECURSIVE MyersEmit(_, _, _, _, _, _, _, _)
MyersEmit(left, right, max, kd, d, backtrack_d, x, y) ==
    IF d > backtrack_d THEN [rc |-> DIFF_RC_OK, adds |-> <<>>]
    ELSE LET col == max + d * (max + 1 + max)
             next_x == KdGet(kd, col)
             next_y == KdGet(kd, col + 1)
             left_atom == DD_ATOM_AT(left, x)
             right_atom == DD_ATOM_AT(right, y)
             ll == next_x - x
             rl == next_y - y
             here ==
                IF ll # 0 /\ rl # 0
                THEN IF ll = rl + 1
                     THEN [rc |-> DIFF_RC_OK,
                           adds |-> <<Chunk(TRUE, left_atom, 1, right_atom, 0),
                                      Chunk(TRUE, left_atom + 1, ll - 1, right_atom, rl)>>]
                     ELSE IF rl = ll + 1
                     THEN [rc |-> DIFF_RC_OK,
                           adds |-> <<Chunk(TRUE, left_atom, 0, right_atom, 1),
                                      Chunk(TRUE, left_atom, ll, right_atom + 1, rl - 1)>>]
                     ELSE IF ll # rl
                     THEN [rc |-> DIFF_RC_USE_DIFF_ALGO_FALLBACK, adds |-> <<>>]
                     ELSE [rc |-> DIFF_RC_OK,
                           adds |-> <<Chunk(TRUE, left_atom, ll, right_atom, rl)>>]
                ELSE IF ll # 0
                THEN [rc |-> DIFF_RC_OK, adds |-> <<Chunk(TRUE, left_atom, ll, right_atom, 0)>>]
                ELSE IF rl # 0
                THEN [rc |-> DIFF_RC_OK, adds |-> <<Chunk(TRUE, left_atom, 0, right_atom, rl)>>]
                ELSE [rc |-> DIFF_RC_OK, adds |-> <<>>]
         IN IF here.rc # DIFF_RC_OK THEN here
            ELSE LET rest == MyersEmit(left, right, max, kd, d + 1, backtrack_d, next_x, next_y)
                 IN [rc |-> rest.rc, adds |-> here.adds \o rest.adds]

(* the state size test of diff_algo_myers *)
MyersStateSize(left, right) ==
    LET max == left.len + right.len
        kd_len == max + 1 + max
    IN kd_len * kd_len * SizeofInt

(* a state size test that also rejects a state of exactly the permitted size *)
MutantMyersOverBudget(left, right, permitted_state_size) ==
    MyersStateSize(left, right) >= permitted_state_size

MyersOverBudget(left, right, permitted_state_size) ==
    MyersStateSize(left, right) > permitted_state_size

(* With max == 0 the buffer holds one int and the backtrace's store to
   kd_column[1] lands behind it. *)
MyersWritesPastBuffer(left, right) == left.len + right.len = 0

(* diff_algo_myers under heap budget h: rc, the add_chunk calls, heap left.
   The array carries one slot more than kd_buf, the word behind the buffer. *)
diff_algo_myers(cx, left, right, permitted_state_size, h) ==
    LET max == left.len + right.len
        kd_len == max + 1 + max
    IN IF MyersOverBudget(left, right, permitted_state_size)
       THEN [rc |-> DIFF_RC_USE_DIFF_ALGO_FALLBACK, adds |-> <<>>, heap |-> h]
       ELSE IF ~AllocOk(h)
       THEN [rc |-> DIFF_RC_ENOMEM, adds |-> <<>>, heap |-> h]
       ELSE LET kd0 == [i \in 1..(kd_len * kd_len + 1) |-> 0 - 1]
                fw == MyersForward(cx, left, right, 0, 0, kd0)
                bt == MyersBacktrace(max, fw.backtrack_d, fw.backtrack_k, fw.kd)
                em == MyersEmit(left, right, max, bt, 0, fw.backtrack_d, 0, 0)
            IN [rc |-> em.rc, adds |-> em.adds, heap |-> AfterAlloc(h)]

-----------------------------------------------------------------------------
(* diff_myers.c: diff_algo_myers_divide, Myers divide-and-conquer *)

ZeroBox == [left_start |-> 0, left_end |-> 0, right_start |-> 0, right_end |-> 0]

diff_box_empty(box) == box.left_end = 0

(* offsets of kd_forward[0] and kd_backward[0] in kd_buf *)
ForwardOrigin(max) == max \div 2
BackwardOrigin(max) == (max + 1) + max \div 2

(* diff_divide_myers_forward for one d, from diagonal k down: the columns
   and mid_snake afterwards (the function returns at the first meeting) *)
RECURSIVE diff_divide_myers_forward(_, _, _, _, _, _, _)
diff_divide_myers_forward(cx, left, right, d, k, kd, box) ==
    LET L == left.len
        R == right.len
        delta == R - L
        fo == ForwardOrigin(L + R)
        bo == BackwardOrigin(L + R)
    IN IF k < 0 - d THEN [kd |-> kd, box |-> box]
       ELSE IF k < 0 - R \/ k > L
       THEN IF k < 0 THEN [kd |-> kd, box |-> box]
            ELSE diff_divide_myers_forward(cx, left, right, d, k - 2, kd, box)
       ELSE LET below == k > 0 - d
                         /\ (k = d \/ (k - 1 >= 0 - R
                                       /\ KdGet(kd, fo + k - 1) >= KdGet(kd, fo + k + 1)))
                prev_k == IF below THEN k - 1 ELSE k + 1
                prev_x == KdGet(kd, fo + prev_k)
                prev_y == xk_to_y(prev_x, prev_k)
                x0 == IF d = 0 THEN 0 ELSE IF below THEN prev_x + 1 ELSE prev_x
                x == SlideForward(cx, left, right, x0, k)
                kd2 == KdSet(kd, fo + k, x)
                backwards_d == d - 1
                c == k_to_c(k, delta)
                backward_x == KdGet(kd2, bo + c)
                backward_y == xc_to_y(backward_x, c, delta)
            IN IF x < 0 \/ x > L \/ xk_to_y(x, k) < 0 \/ xk_to_y(x, k) > R
               THEN diff_divide_myers_forward(cx, left, right, d, k - 2, kd2, box)
               ELSE IF /\ delta % 2 = 1 /\ backwards_d >= 0
                       /\ c >= 0 - backwards_d /\ c <= backwards_d
                       /\ prev_x <= backward_x /\ prev_y <= backward_y
                       /\ x >= backward_x
               THEN [kd |-> kd2,
                     box |-> [left_start |-> backward_x, left_end |-> x,
                              right_start |-> xc_to_y(backward_x, c, delta),
                              right_end |-> xk_to_y(x, k)]]
               ELSE diff_divide_myers_forward(cx, left, right, d, k - 2, kd2, box)

(* the backward snake: while (x > 0 && y > 0 && same(left[x-1], right[y-1])) x-- *)
RECURSIVE SlideBackward(_, _, _, _, _, _)
SlideBackward(cx, left, right, x, c, delta) ==
    IF /\ x > 0 /\ xc_to_y(x, c, delta) > 0
       /\ ViewSame(cx, left, right, x - 1, xc_to_y(x, c, delta) - 1)
    THEN SlideBackward(cx, left, right, x - 1, c, delta)
    ELSE x

(* a meeting test that does not ask the forward position to have reached x *)
MutantBackwardMeets(forward_x, forward_y, prev_x, prev_y, x) ==
    forward_x <= prev_x /\ forward_y <= prev_y

(* the backward traversal has walked onto or past the forward position of
   its diagonal *)
BackwardMeets(forward_x, forward_y, prev_x, prev_y, x) ==
    forward_x <= prev_x /\ forward_y <= prev_y /\ forward_x >= x

(* which neighbour diagonal a backward step derives from: TRUE for c - 1
   (x = prev_x), FALSE for c + 1 (x = prev_x - 1); bo is the offset of
   kd_backward[0] in kd. *)
BackwardFromAbove(right, d, c, kd, bo) ==
    c > 0 - d /\ (c = d \/ (c - 1 >= 0 - right.len
                            /\ KdGet(kd, bo + c - 1) <= KdGet(kd, bo + c + 1)))

(* diff_divide_myers_backward for one d, from diagonal c down.  At d == 0
   prev_x and prev_y are read without ever having been assigned: garbage
   stands for the indeterminate value both hold. *)
RECURSIVE diff_divide_myers_backward(_, _, _, _, _, _, _, _)
diff_divide_myers_backward(cx, left, right, d, c, kd, box, garbage) ==
    LET L == left.len
        R == right.len
        delta == R - L
        fo == ForwardOrigin(L + R)
        bo == BackwardOrigin(L + R)
    IN IF c < 0 - d THEN [kd |-> kd, box |-> box]
       ELSE IF c < 0 - L \/ c > R
       THEN IF c < 0 THEN [kd |-> kd, box |-> box]
            ELSE diff_divide_myers_backward(cx, left, right, d, c - 2, kd, box, garbage)
       ELSE LET below == BackwardFromAbove(right, d, c, kd, bo)
                prev_c == IF below THEN c - 1 ELSE c + 1
                prev_x == IF d = 0 THEN garbage ELSE KdGet(kd, bo + prev_c)
                prev_y == IF d = 0 THEN garbage ELSE xc_to_y(prev_x, prev_c, delta)
                x0 == IF d = 0 THEN L ELSE IF below THEN prev_x ELSE prev_x - 1
                x == SlideBackward(cx, left, right, x0, c, delta)
                kd2 == KdSet(kd, bo + c, x)
                forwards_d == d
                k == c_to_k(c, delta)
                forward_x == KdGet(kd2, fo + k)
                forward_y == xk_to_y(forward_x, k)
            IN IF x < 0 \/ x > L \/ xc_to_y(x, c, delta) < 0 \/ xc_to_y(x, c, delta) > R
               THEN diff_divide_myers_backward(cx, left, right, d, c - 2, kd2, box, garbage)
               ELSE IF /\ delta % 2 = 0
                       /\ k >= 0 - forwards_d /\ k <= forwards_d
                       /\ BackwardMeets(forward_x, forward_y, prev_x, prev_y, x)
               THEN [kd |-> kd2,
                     box |-> [left_start |-> x, left_end |-> forward_x,
                              right_start |-> xc_to_y(x, c, delta),
                              right_end |-> xk_to_y(forward_x, k)]]
               ELSE diff_divide_myers_backward(cx, left, right, d, c - 2, kd2, box, garbage)

(* the loop for (d = 0; d <= max/2; d++): mid_snake when it ends *)
RECURSIVE DivideSearch(_, _, _, _, _, _, _)
DivideSearch(cx, left, right, d, kd, box, garbage) ==
    IF d > (left.len + right.len) \div 2 THEN box
    ELSE LET f == diff_divide_myers_forward(cx, left, right, d, d, kd, box)
         IN IF ~diff_box_empty(f.box) THEN f.box
            ELSE LET b == diff_divide_myers_backward(cx, left, right, d, d, f.kd, f.box, garbage)
                 IN IF ~diff_box_empty(b.box) THEN b.box
                    ELSE DivideSearch(cx, left, right, d + 1, b.kd, b.box, garbage)

(* a section emission that leaves every non-empty section unsolved *)
MutantSectionUnsolved(left_atom, left_section_len, right_atom, right_section_len) ==
    IF left_section_len # 0 \/ right_section_len # 0
    THEN <<Chunk(FALSE, left_atom, left_section_len, right_atom, right_section_len)>>
    ELSE <<>>

(* a section emission that marks a two-sided section solved *)
MutantSectionChunk(left_atom, left_section_len, right_atom, right_section_len) ==
    IF left_section_len # 0 /\ right_section_len # 0
    THEN <<Chunk(TRUE, left_atom, left_section_len, right_atom, right_section_len)>>
    ELSE IF left_section_len # 0
    THEN <<Chunk(TRUE, left_atom, left_section_len, right_atom, 0)>>
    ELSE IF right_section_len # 0
    THEN <<Chunk(TRUE, left_atom, 0, right_atom, right_section_len)>>
    ELSE <<>>

(* the chunk for a section before or after the mid-snake, if any *)
SectionChunk(left_atom, left_section_len, right_atom, right_section_len) ==
    IF left_section_len # 0 /\ right_section_len # 0
    THEN <<Chunk(FALSE, left_atom, left_section_len, right_atom, right_section_len)>>
    ELSE IF left_section_len # 0
    THEN <<Chunk(TRUE, left_atom, left_section_len, right_atom, 0)>>
    ELSE IF right_section_len # 0
    THEN <<Chunk(TRUE, left_atom, 0, right_atom, right_section_len)>>
    ELSE <<>>

(* the mid-snake chunk, added whatever its length *)
MidSnakeChunk(left, right, mid_snake) ==
    <<Chunk(TRUE, DD_ATOM_AT(left, mid_snake.left_start),
            mid_snake.left_end - mid_snake.left_start,
            DD_ATOM_AT(right, mid_snake.right_start),
            mid_snake.right_end - mid_snake.right_start)>>

(* diff_algo_myers_divide under heap budget h *)
diff_algo_myers_divide(cx, left, right, garbage, h) ==
    LET max == left.len + right.len
        kd_buf_size == 2 * (max + 1)
    IN IF ~AllocOk(h)
       THEN [rc |-> DIFF_RC_ENOMEM, adds |-> <<>>, heap |-> h]
       ELSE LET kd0 == [i \in 1..kd_buf_size |-> 0 - 1]
                mid_snake == DivideSearch(cx, left, right, 0, kd0, ZeroBox, garbage)
            IN IF diff_box_empty(mid_snake)
               THEN [rc |-> DIFF_RC_USE_DIFF_ALGO_FALLBACK, adds |-> <<>>,
                     heap |-> AfterAlloc(h)]
               ELSE [rc |-> DIFF_RC_OK,
                     adds |-> SectionChunk(DD_ATOM_AT(left, 0), mid_snake.left_start,
                                           DD_ATOM_AT(right, 0), mid_snake.right_start)
                              \o MidSnakeChunk(left, right, mid_snake)
                              \o SectionChunk(DD_ATOM_AT(left, mid_snake.left_end),
                                              left.len - mid_snake.left_end,
                                              DD_ATOM_AT(right, mid_snake.right_end),
                                              right.len - mid_snake.right_end),
                     heap |-> AfterAlloc(h)]

-----------------------------------------------------------------------------
(* diff_patience.c: diff_algo_patience *)

(* indexes of the atoms of a view *)
Idx(view) == 0 .. (view.len - 1)

(* diff_atom_same on two atoms of the same side *)
LeftSame(cx, left, i, j) ==
    diff_atom_same(cx.ld, cx.la[DD_ATOM_AT(left, i) + 1], cx.ld, cx.la[DD_ATOM_AT(left, j) + 1])
RightSame(cx, right, i, j) ==
    diff_atom_same(cx.rd, cx.ra[DD_ATOM_AT(right, i) + 1], cx.rd, cx.ra[DD_ATOM_AT(right, j) + 1])

(* diff_atoms_mark_unique: patience.unique_here of every atom of a view *)
diff_atoms_mark_unique_left(cx, left) ==
    [i \in Idx(left) |-> \A j \in Idx(left) : j = i \/ ~LeftSame(cx, left, i, j)]
diff_atoms_mark_unique_right(cx, right) ==
    [i \in Idx(right) |-> \A j \in Idx(right) : j = i \/ ~RightSame(cx, right, i, j)]

(* diff_atoms_mark_unique_in_both: unique_in_both of both sides, the
   pos_in_other of the left atoms (as right indexes) and the count *)
diff_atoms_mark_unique_in_both(cx, left, right) ==
    LET uhl == diff_atoms_mark_unique_left(cx, left)
        uhr == diff_atoms_mark_unique_right(cx, right)
        matches(i) == {j \in Idx(right) : ViewSame(cx, left, right, i, j)}
        first(i) == CHOOSE j \in matches(i) : \A j2 \in matches(i) : j <= j2
        uibl == [i \in Idx(left) |-> uhl[i] /\ matches(i) # {} /\ uhr[first(i)]]
        pos == [i \in Idx(left) |-> IF uibl[i] THEN first(i) ELSE NullAtom]
        uibr == [j \in Idx(right) |->
                    uhr[j] /\ \E i \in Idx(left) : uibl[i] /\ ViewSame(cx, left, right, i, j)]
    IN [uibl |-> uibl, uibr |-> uibr, pos |-> pos,
        count |-> Cardinality({i \in Idx(left) : uibl[i]})]

(* the first for loop of an anchor: extend the identical range upwards *)
RECURSIVE SwallowUp(_, _, _, _, _, _, _)
SwallowUp(cx, left, right, ls, rs, l_min, r_min) ==
    IF ls > l_min /\ rs > r_min /\ ViewSame(cx, left, right, ls - 1, rs - 1)
    THEN SwallowUp(cx, left, right, ls - 1, rs - 1, l_min, r_min)
    ELSE [l |-> ls, r |-> rs]

(* the second for loop: extend downwards, un-marking the anchors swallowed *)
RECURSIVE SwallowDown(_, _, _, _, _, _)
SwallowDown(cx, left, right, le, re, m) ==
    IF le < left.len /\ re < right.len /\ ViewSame(cx, left, right, le, re)
    THEN SwallowDown(cx, left, right, le + 1, re + 1,
                     IF m.uibl[le]
                     THEN [m EXCEPT !.uibl[le] = FALSE, !.uibr[re] = FALSE, !.count = @ - 1]
                     ELSE m)
    ELSE [l |-> le, r |-> re, m |-> m]

(* diff_atoms_swallow_identical_neighbors from l_idx on; m carries the marks,
   idl and idr the identical_lines ranges of left and right atoms *)
RECURSIVE diff_atoms_swallow_identical_neighbors(_, _, _, _, _, _, _)
diff_atoms_swallow_identical_neighbors(cx, left, right, l_idx, l_min, r_min, m) ==
    IF l_idx >= left.len THEN m
    ELSE IF ~m.uibl[l_idx]
    THEN diff_atoms_swallow_identical_neighbors(cx, left, right, l_idx + 1, l_min, r_min, m)
    ELSE LET r_idx == m.pos[l_idx]
             up == SwallowUp(cx, left, right, l_idx, r_idx, l_min, r_min)
             down == SwallowDown(cx, left, right, l_idx + 1, r_idx + 1, m)
             m2 == [down.m EXCEPT
                      !.idl = [@ EXCEPT ![l_idx] = [start |-> up.l, end |-> down.l]],
                      !.idr = [@ EXCEPT ![r_idx] = [start |-> up.r, end |-> down.r]]]
         IN diff_atoms_swallow_identical_neighbors(cx, left, right, down.l, down.l, down.r, m2)

(* the binary search for the stack an atom goes on *)
RECURSIVE TargetStack(_, _, _, _, _)
TargetStack(stacks, pos, atom, lo, hi) ==
    IF lo < hi
    THEN LET mid == (lo + hi) \div 2
         IN IF pos[stacks[mid + 1]] < pos[atom]
            THEN TargetStack(stacks, pos, atom, mid + 1, hi)
            ELSE TargetStack(stacks, pos, atom, lo, mid)
    ELSE lo

(* the patience sort over uniques: the stacks and every atom's prev_stack *)
RECURSIVE PatienceSort(_, _, _, _, _)
PatienceSort(uniques, pos, i, stacks, prev_stack) ==
    IF i > Len(uniques) THEN [stacks |-> stacks, prev_stack |-> prev_stack]
    ELSE LET atom == uniques[i]
             target_stack == IF Len(stacks) = 0 THEN 0
                             ELSE TargetStack(stacks, pos, atom, 0, Len(stacks))
             stacks2 == IF target_stack = Len(stacks) THEN Append(stacks, atom)
                        ELSE [stacks EXCEPT ![target_stack + 1] = atom]
             prev == IF target_stack # 0 THEN stacks2[target_stack] ELSE NullAtom
         IN PatienceSort(uniques, pos, i + 1, stacks2, [prev_stack EXCEPT ![atom] = prev])

(* the backtrace from lcs_tail along prev_stack *)
RECURSIVE LcsBacktrace(_, _, _)
LcsBacktrace(atom, prev_stack, lcs) ==
    IF atom = NullAtom THEN lcs
    ELSE LcsBacktrace(prev_stack[atom], prev_stack, <<atom>> \o lcs)

(* the left atoms with unique_in_both set, in order *)
Uniques(left, uibl) ==
    LET RECURSIVE From(_)
        From(i) == IF i >= left.len THEN <<>>
                   ELSE (IF uibl[i] THEN <<i>> ELSE <<>>) \o From(i + 1)
    IN From(0)

(* the final loop over the LCS: the chunks added for i, i+1 .. lcs_count *)
RECURSIVE PatienceEmit(_, _, _, _, _, _, _)
PatienceEmit(left, right, m, lcs, i, left_pos, right_pos) ==
    IF i > Len(lcs) THEN <<>>
    ELSE LET last == i = Len(lcs)
             atom == lcs[i + 1]
             atom_r == m.pos[atom]
             left_idx == IF last THEN left.len ELSE m.idl[atom].start
             right_idx == IF last THEN right.len ELSE m.idr[atom_r].start
             section == SectionChunk(DD_ATOM_AT(left, left_pos),
                                     left_idx - left_pos,
                                     DD_ATOM_AT(right, right_pos),
                                     right_idx - right_pos)
         IN IF last THEN section
            ELSE section
                 \o <<Chunk(TRUE, DD_ATOM_AT(left, m.idl[atom].start),
                            m.idl[atom].end - m.idl[atom].start,
                            DD_ATOM_AT(right, m.idr[atom_r].start),
                            m.idr[atom_r].end - m.idr[atom_r].start)>>
                 \o PatienceEmit(left, right, m, lcs, i + 1,
                                 m.idl[atom].end, m.idr[atom_r].end)

(* diff_algo_patience under heap budget h.  The two recallocarray results
   are used unchecked: trap when one of them is NULL. *)
diff_algo_patience(cx, left, right, h) ==
    LET marks == diff_atoms_mark_unique_in_both(cx, left, right)
        none == [start |-> 0, end |-> 0]
        m0 == [uibl |-> marks.uibl, uibr |-> marks.uibr, pos |-> marks.pos,
               count |-> marks.count,
               idl |-> [i \in Idx(left) |-> none], idr |-> [j \in Idx(right) |-> none]]
        m == diff_atoms_swallow_identical_neighbors(cx, left, right, 0, 0, 0, m0)
        uniques == Uniques(left, m.uibl)
        sorted == PatienceSort(uniques, m.pos, 1, <<>>, [i \in Idx(left) |-> NullAtom])
        lcs_tail == sorted.stacks[Len(sorted.stacks)]
        lcs == LcsBacktrace(lcs_tail, sorted.prev_stack, <<>>)
        h1 == AfterAlloc(h)
    IN IF marks.count = 0
       THEN [rc |-> DIFF_RC_USE_DIFF_ALGO_FALLBACK, adds |-> <<>>, heap |-> h, trap |-> FALSE]
       ELSE IF ~AllocOk(h) \/ ~AllocOk(h1)
       THEN [rc |-> DIFF_RC_ENOMEM, adds |-> <<>>, heap |-> 0, trap |-> TRUE]
       ELSE [rc |-> DIFF_RC_OK, adds |-> PatienceEmit(left, right, m, lcs, 0, 0, 0),
             heap |-> AfterAlloc(h1), trap |-> FALSE]

-----------------------------------------------------------------------------
(* diff.c, diff_main.h: struct diff_algo_config and the algorithm graphs *)

AlgoNull == "NULL"

(* myers, patience and myers_divide are the configs of diff.c; myers_alone
   and divide_alone are the same implementations with neither inner_algo nor
   fallback_algo. *)
AlgoConfig(name) ==
    CASE name = "myers" ->
            [impl |-> "diff_algo_myers", inner_algo |-> AlgoNull, fallback_algo |-> "patience"]
      [] name = "patience" ->
            [impl |-> "diff_algo_patience", inner_algo |-> "patience",
             fallback_algo |-> "myers_divide"]
      [] name = "myers_divide" ->
            [impl |-> "diff_algo_myers_divide", inner_algo |-> "myers",
             fallback_algo |-> AlgoNull]
      [] name = "myers_alone" ->
            [impl |-> "diff_algo_myers", inner_algo |-> AlgoNull, fallback_algo |-> AlgoNull]
      [] name = "divide_alone" ->
            [impl |-> "diff_algo_myers_divide", inner_algo |-> AlgoNull,
             fallback_algo |-> AlgoNull]

Roots == {AlgoNull, "myers", "patience", "myers_divide", "myers_alone", "divide_alone"}

(* algo_config == NULL || !algo_config->impl || !state->recursion_depth_left *)
UsesAlgoNone(algo, recursion_depth_left) ==
    algo = AlgoNull \/ recursion_depth_left = 0

ImplOf(frame) ==
    IF UsesAlgoNone(frame.algo, frame.depth) THEN "diff_algo_none"
    ELSE AlgoConfig(frame.algo).impl

(* an inner state that keeps the recursion depth of its caller *)
MutantInnerDepth(recursion_depth_left) == recursion_depth_left

(* .recursion_depth_left of inner_state *)
InnerDepth(recursion_depth_left) == recursion_depth_left - 1

(* a fallback that runs inner_algo *)
MutantFallbackOf(algo) == AlgoConfig(algo).inner_algo

(* the configuration diff_run_algo recurses into on
   DIFF_RC_USE_DIFF_ALGO_FALLBACK *)
FallbackOf(algo) == AlgoConfig(algo).fallback_algo

(* a switch without the DIFF_RC_USE_DIFF_ALGO_FALLBACK case *)
MutantAfterImpl(rc) ==
    IF rc = DIFF_RC_OK THEN "loop" ELSE "ret"

(* the switch on the rc of algo_config->impl *)
AfterImpl(rc) ==
    IF rc = DIFF_RC_USE_DIFF_ALGO_FALLBACK THEN "fallback"
    ELSE IF rc = DIFF_RC_OK THEN "loop"
    ELSE "ret"

(* diff_data_init_subsection reads from_atom->at and last_atom->at +
   last_atom->len: defined only when both atoms are in the table. *)
SubsectionDefined(table, from_atom, atoms_count) ==
    /\ from_atom # NullAtom
    /\ from_atom >= 0 /\ from_atom < Len(table)
    /\ atoms_count >= 0
    /\ from_atom + atoms_count - 1 >= 0 /\ from_atom + atoms_count - 1 < Len(table)

diff_data_init_subsection(from_atom, atoms_count) == View(from_atom, atoms_count)

(* DD_ATOM_FIRST of a root: atoms.head, NULL while nothing was added *)
DD_ATOM_FIRST(atoms) == IF atoms.null THEN NullAtom ELSE 0

-----------------------------------------------------------------------------
(* The inputs *)

LineA == <<65, LF>>
LineB == <<66, LF>>
Lines == {LineA, LineB}

RECURSIVE Concat(_)
Concat(ss) == IF ss = <<>> THEN <<>> ELSE Head(ss) \o Concat(Tail(ss))

RECURSIVE SeqsUpTo(_, _)
SeqsUpTo(S, n) ==
    IF n = 0 THEN {<<>>}
    ELSE LET shorter == SeqsUpTo(S, n - 1)
         IN shorter \cup {Append(q, e) : q \in {t \in shorter : Len(t) = n - 1}, e \in S}

Buffers == {Concat(ls) : ls \in SeqsUpTo(Lines, MaxLines)}

StateSizes == {0, SmallStateSize, DefaultStateSize}

(* max_recursion_depth 0 selects the default depth; it is combined with the
   default state size only, where Myers solves every input of these sizes *)
Budgets ==
    {[permitted_state_size |-> DefaultStateSize, max_recursion_depth |-> 0]}
    \cup {[permitted_state_size |-> p, max_recursion_depth |-> r] :
            p \in StateSizes, r \in 1 .. MaxDepth}

(* Lines named by one letter each, LF-terminated *)
Text(letters) == Concat([i \in 1 .. Len(letters) |-> <<letters[i], LF>>])

(* Two files whose common unique lines cross: Z q A X P X B against
   P Z s A X B, one with a CR LF line: f b z against f b<CR><LF> z, and one
   line against six other lines: A against B C D E F G, where the backward
   traversal of Myers-divide goes on after it left the graph *)
Scenarios ==
    {[left |-> Text(<<90, 113, 65, 88, 80, 88, 66>>),
      right |-> Text(<<80, 90, 115, 65, 88, 66>>),
      algo |-> a, permitted_state_size |-> SmallStateSize, max_recursion_depth |-> 1] :
        a \in {"myers", "patience"}}
    \cup {[left |-> Text(<<102, 98, 122>>),
           right |-> <<102, LF, 98, CR, LF, 122, LF>>,
           algo |-> "myers", permitted_state_size |-> DefaultStateSize,
           max_recursion_depth |-> 0]}
    \cup {[left |-> Text(<<65>>),
           right |-> Text(<<66, 67, 68, 69, 70, 71>>),
           algo |-> "divide_alone", permitted_state_size |-> SmallStateSize,
           max_recursion_depth |-> 1]}

Enumerated ==
    {[left |-> l, right |-> r, algo |-> a,
      permitted_state_size |-> b.permitted_state_size,
      max_recursion_depth |-> b.max_recursion_depth] :
        l \in Buffers, r \in Buffers, a \in Roots, b \in Budgets}

(* past: the byte behind either buffer, 0 inside the last mapped page or
   Unmapped when the file ends on a page boundary; atomize: atomize_func is
   set *)
Inputs ==
    {[left |-> c.left, right |-> c.right, algo |-> c.algo,
      permitted_state_size |-> c.permitted_state_size,
      max_recursion_depth |-> c.max_recursion_depth,
      past |-> p, atomize |-> f] :
        c \in Enumerated \cup Scenarios, p \in {0, Unmapped}, f \in BOOLEAN}

(* indeterminate int values: the smallest and the largest *)
Garbage == {0 - 2147483647 - 1, 2147483647}

NoResult ==
    [null |-> TRUE, rc |-> DIFF_RC_OK, left |-> ARRAYLIST_INIT(0),
     right |-> ARRAYLIST_INIT(0), chunks |-> ARRAYLIST_INIT(0)]

(* fallbacks counts the impl calls so far that returned
   DIFF_RC_USE_DIFF_ALGO_FALLBACK *)
NoRun == [impl |-> "", left |-> View(0, 0), right |-> View(0, 0), rc |-> DIFF_RC_OK,
          adds |-> <<>>, fallbacks |-> 0]

-----------------------------------------------------------------------------
(* The state machine of one diff_main call *)

Frame(algo, left, right, depth) ==
    [algo |-> algo, left |-> left, right |-> right, depth |-> depth,
     temp |-> ARRAYLIST_INIT(0), i |-> 0, phase |-> "call", rc |-> DIFF_RC_OK]

Top == stack[Len(stack)]
SetTop(frame) == [stack EXCEPT ![Len(stack)] = frame]

IdleAtomizer == /\ abuf = <<>> /\ apast = 0 /\ apos = 0 /\ aatoms = ARRAYLIST_INIT(0)

InitMain(heaps) ==
    /\ input \in Inputs
    /\ pc = "start"
    /\ result = NoResult
    /\ stack = <<>>
    /\ heap \in heaps
    /\ lastRun = NoRun
    /\ IdleAtomizer

Init == InitMain({NoLimit})

Crash ==
    /\ pc' = "crashed"
    /\ UNCHANGED <<input, result, stack, heap, lastRun, abuf, apast, apos, aatoms>>

(* diff_main without its test of the atomiser's return code *)
MutantDiffMainAtomized(a, res, lfirst, rfirst) ==
    /\ heap' = a.heap
    /\ IF a.trap
       THEN pc' = "crashed" /\ UNCHANGED <<result, stack>>
       ELSE /\ pc' = "run"
            /\ result' = res
            /\ stack' = <<Frame(input.algo,
                                diff_data_init_subsection(lfirst, a.left.len),
                                diff_data_init_subsection(rfirst, a.right.len),
                                IF input.max_recursion_depth # 0
                                THEN input.max_recursion_depth
                                ELSE DefaultRecursionDepth)>>

(* diff_main once atomize_func has returned a: the roots are initialised and
   diff_run_algo is entered *)
DiffMainAtomized(a, res, lfirst, rfirst) ==
    /\ heap' = a.heap
    /\ IF a.trap
       THEN pc' = "crashed" /\ UNCHANGED <<result, stack>>
       ELSE IF a.rc # DIFF_RC_OK
       THEN pc' = "done" /\ result' = res /\ UNCHANGED stack
       ELSE \/ /\ ~(/\ SubsectionDefined(a.left.items, lfirst, a.left.len)
                      /\ SubsectionDefined(a.right.items, rfirst, a.right.len))
               /\ pc' = "crashed" /\ result' = res /\ UNCHANGED stack
            \/ /\ pc' = "run"
               /\ result' = res
               /\ stack' = <<Frame(input.algo,
                        diff_data_init_subsection(lfirst, a.left.len),
                        diff_data_init_subsection(rfirst, a.right.len),
                        IF input.max_recursion_depth # 0
                        THEN input.max_recursion_depth
                        ELSE DefaultRecursionDepth)>>

DiffMainRoots(a) ==
    DiffMainAtomized(a, [null |-> FALSE, rc |-> a.rc, left |-> a.left, right |-> a.right,
                         chunks |-> ARRAYLIST_INIT(0)],
                     DD_ATOM_FIRST(a.left), DD_ATOM_FIRST(a.right))

(* diff_main up to its call of diff_run_algo *)
DiffMain ==
    /\ pc = "start"
    /\ UNCHANGED <<input, lastRun, abuf, apast, apos, aatoms>>
    /\ IF ~AllocOk(heap)
       THEN /\ pc' = "done"
            /\ UNCHANGED <<result, stack, heap>>
       ELSE IF ~input.atomize
       THEN /\ pc' = "done"
            /\ result' = [NoResult EXCEPT !.null = FALSE, !.rc = DIFF_RC_EINVAL]
            /\ heap' = AfterAlloc(heap)
            /\ UNCHANGED stack
       ELSE \E readfirst \in BOOLEAN :
              DiffMainRoots(diff_atomize_text_by_line(input.left, input.right, input.past,
                                                      readfirst, AfterAlloc(heap)))

(* diff_algo_none compares atom n of both views while it can: does every
   atom it reads lie in its table? *)
RECURSIVE NoneReadsInTable(_, _, _, _)
NoneReadsInTable(cx, left, right, n) ==
    IF ULess(n, left.len) /\ ULess(n, right.len)
    THEN /\ InTable(cx.la, left, n + 1)
         /\ InTable(cx.ra, right, n + 1)
         /\ (ViewSame(cx, left, right, n, n) => NoneReadsInTable(cx, left, right, n + 1))
    ELSE TRUE

(* the end of an algorithm run inside diff_run_algo: add the chunks, then
   switch on rc *)
Finish(impl, r, temp0) ==
    LET st == AddChunks([chunks |-> result.chunks, temp |-> temp0, heap |-> r.heap], r.adds)
        rc == IF st.ok THEN r.rc ELSE DIFF_RC_ENOMEM
        next == IF impl = "diff_algo_none" THEN "ret" ELSE AfterImpl(rc)
    IN /\ result' = [result EXCEPT !.chunks = st.chunks]
       /\ heap' = st.heap
       /\ lastRun' = [impl |-> impl, left |-> Top.left, right |-> Top.right, rc |-> rc,
                      adds |-> r.adds,
                      fallbacks |-> lastRun.fallbacks
                                    + (IF rc = DIFF_RC_USE_DIFF_ALGO_FALLBACK THEN 1 ELSE 0)]
       /\ pc' = pc
       /\ stack' = SetTop(
            CASE next = "fallback" ->
                    [Top EXCEPT !.algo = FallbackOf(Top.algo),
                                !.temp = st.temp, !.phase = "call"]
              [] next = "loop" -> [Top EXCEPT !.temp = st.temp, !.i = 0, !.phase = "loop"]
              [] next = "ret" ->
                    [Top EXCEPT !.temp = ARRAYLIST_FREE(st.temp), !.rc = rc, !.phase = "ret"])
       /\ UNCHANGED <<input, abuf, apast, apos, aatoms>>

Running(impl) ==
    /\ pc = "run"
    /\ stack # <<>>
    /\ Top.phase = "call"
    /\ ImplOf(Top) = impl

(* every atom of both views lies in its table *)
ViewsInTable(cx) ==
    InTable(cx.la, Top.left, Top.left.len) /\ InTable(cx.ra, Top.right, Top.right.len)

(* diff_run_algo with no algorithm or no depth left: diff_algo_none *)
RunNone ==
    /\ Running("diff_algo_none")
    /\ LET cx == Context(input, result)
       IN IF ~NoneReadsInTable(cx, Top.left, Top.right, 0)
          THEN Crash
          ELSE Finish("diff_algo_none",
                      [rc |-> DIFF_RC_OK, adds |-> diff_algo_none(cx, Top.left, Top.right),
                       heap |-> heap],
                      ARRAYLIST_FREE(Top.temp))

RunMyers ==
    /\ Running("diff_algo_myers")
    /\ LET cx == Context(input, result)
           r == diff_algo_myers(cx, Top.left, Top.right, input.permitted_state_size, heap)
       IN IF ~ViewsInTable(cx)
          THEN Crash
          ELSE \/ /\ MyersWritesPastBuffer(Top.left, Top.right)
                  /\ r.rc = DIFF_RC_OK
                  /\ Crash
               \/ Finish("diff_algo_myers", r, ARRAYLIST_INIT(DIFF_RESULT_ALLOC_BLOCKSIZE))

RunMyersDivide ==
    /\ Running("diff_algo_myers_divide")
    /\ LET cx == Context(input, result)
       IN IF ~ViewsInTable(cx)
          THEN Crash
          ELSE \E garbage \in Garbage :
                 Finish("diff_algo_myers_divide",
                        diff_algo_myers_divide(cx, Top.left, Top.right, garbage, heap),
                        ARRAYLIST_INIT(DIFF_RESULT_ALLOC_BLOCKSIZE))

RunPatience ==
    /\ Running("diff_algo_patience")
    /\ LET cx == Context(input, result)
           r == diff_algo_patience(cx, Top.left, Top.right, heap)
       IN IF ~ViewsInTable(cx) \/ r.trap
          THEN Crash
          ELSE Finish("diff_algo_patience", r, ARRAYLIST_INIT(DIFF_RESULT_ALLOC_BLOCKSIZE))

InLoop ==
    /\ pc = "run"
    /\ stack # <<>>
    /\ Top.phase = "loop"

(* the loop body for a solved chunk of temp_result *)
LoopSolved ==
    /\ InLoop
    /\ Top.i < Top.temp.len
    /\ Top.temp.items[Top.i + 1].solved
    /\ LET add == ARRAYLIST_ADD(result.chunks, heap, Top.temp.items[Top.i + 1])
       IN /\ result' = [result EXCEPT !.chunks = add.list]
          /\ heap' = add.heap
          /\ stack' = SetTop(IF add.ok THEN [Top EXCEPT !.i = @ + 1]
                             ELSE [Top EXCEPT !.temp = ARRAYLIST_FREE(@),
                                              !.rc = DIFF_RC_ENOMEM, !.phase = "ret"])
    /\ UNCHANGED <<input, pc, lastRun, abuf, apast, apos, aatoms>>

(* the loop body for an unsolved chunk: the nested diff_run_algo call *)
LoopUnsolved ==
    /\ InLoop
    /\ Top.i < Top.temp.len
    /\ ~Top.temp.items[Top.i + 1].solved
    /\ LET c == Top.temp.items[Top.i + 1]
           defined == /\ SubsectionDefined(result.left.items, c.left_start, c.left_count)
                      /\ SubsectionDefined(result.right.items, c.right_start, c.right_count)
       IN \/ /\ ~defined
             /\ Crash
          \/ /\ stack' = Append(SetTop([Top EXCEPT !.phase = "inner"]),
                                Frame(AlgoConfig(Top.algo).inner_algo,
                                      diff_data_init_subsection(c.left_start, c.left_count),
                                      diff_data_init_subsection(c.right_start, c.right_count),
                                      InnerDepth(Top.depth)))
             /\ UNCHANGED <<input, pc, result, heap, lastRun, abuf, apast, apos, aatoms>>

(* the loop is through: rc = DIFF_RC_OK *)
LoopEnd ==
    /\ InLoop
    /\ Top.i >= Top.temp.len
    /\ stack' = SetTop([Top EXCEPT !.temp = ARRAYLIST_FREE(@), !.rc = DIFF_RC_OK,
                                   !.phase = "ret"])
    /\ UNCHANGED <<input, pc, result, heap, lastRun, abuf, apast, apos, aatoms>>

(* diff_run_algo returns: to diff_main, which stores rc, or to the loop of
   the calling diff_run_algo *)
Return ==
    /\ pc = "run"
    /\ stack # <<>>
    /\ Top.phase = "ret"
    /\ IF Len(stack) = 1
       THEN /\ pc' = "done"
            /\ result' = [result EXCEPT !.rc = Top.rc]
            /\ stack' = <<>>
       ELSE LET caller == stack[Len(stack) - 1]
                rest == SubSeq(stack, 1, Len(stack) - 2)
            IN /\ stack' = Append(rest,
                     IF Top.rc # DIFF_RC_OK
                     THEN [caller EXCEPT !.temp = ARRAYLIST_FREE(@), !.rc = Top.rc,
                                         !.phase = "ret"]
                     ELSE [caller EXCEPT !.i = @ + 1, !.phase = "loop"])
               /\ UNCHANGED <<pc, result>>
    /\ UNCHANGED <<input, heap, lastRun, abuf, apast, apos, aatoms>>

Next ==
    \/ DiffMain
    \/ RunNone
    \/ RunMyers
    \/ RunMyersDivide
    \/ RunPatience
    \/ LoopSolved
    \/ LoopUnsolved
    \/ LoopEnd
    \/ Return

Spec == Init /\ [][Next]_vars

(* diff_main under a heap where only the first heap allocations succeed,
   heap \in 0 .. MaxHeap of them *)
InitOOM ==
    /\ InitMain(0 .. MaxHeap)
    /\ input.past = 0

SpecOOM == InitOOM /\ [][Next]_vars

-----------------------------------------------------------------------------
(* The line atomiser alone: diff_data_atomize_text_lines on one buffer, one
   iteration of its outer loop per step *)

Bytes == {65, CR, LF}
ByteBuffers == SeqsUpTo(Bytes, MaxBytes)
PastBytes == {0, CR, LF, Unmapped}

NoInput ==
    [left |-> <<>>, right |-> <<>>, algo |-> AlgoNull, permitted_state_size |-> 0,
     max_recursion_depth |-> 0, past |-> 0, atomize |-> FALSE]

InitAtomize ==
    /\ input = NoInput
    /\ pc = "atomize"
    /\ result = NoResult
    /\ stack = <<>>
    /\ heap = NoLimit
    /\ lastRun = NoRun
    /\ abuf \in ByteBuffers
    /\ apast \in PastBytes
    /\ apos = 0
    /\ aatoms = ARRAYLIST_INIT(AtomBlocksize(Len(abuf)))

AtomizeAdd(a, add, readfirst) ==
    IF AtomizeTraps(a, apast, readfirst)
    THEN pc' = "crashed" /\ UNCHANGED <<apos, aatoms, heap>>
    ELSE /\ aatoms' = add.list
         /\ heap' = add.heap
         /\ apos' = IF add.ok THEN a.next ELSE apos
         /\ pc' = IF add.ok THEN pc ELSE "atomized"

(* one iteration of the while (pos < end) loop *)
AtomizeStep ==
    /\ pc = "atomize"
    /\ apos < Len(abuf)
    /\ \E readfirst \in BOOLEAN :
          AtomizeAdd(AtomizeLine(abuf, apast, apos),
                     ARRAYLIST_ADD(aatoms, heap, AtomizeLine(abuf, apast, apos).atom),
                     readfirst)
    /\ UNCHANGED <<input, result, stack, lastRun, abuf, apast>>

(* pos reached end: return DIFF_RC_OK *)
AtomizeReturn ==
    /\ pc = "atomize"
    /\ apos >= Len(abuf)
    /\ pc' = "atomized"
    /\ UNCHANGED <<input, result, stack, heap, lastRun, abuf, apast, apos, aatoms>>

NextAtomize ==
    \/ AtomizeStep
    \/ AtomizeReturn

SpecAtomize == InitAtomize /\ [][NextAtomize]_vars

-----------------------------------------------------------------------------
(* Properties of the returned result *)

Returned == pc = "done" /\ ~result.null
ReturnedOk == Returned /\ result.rc = DIFF_RC_OK
Chunks == result.chunks.items

(* the atom positions start, start + 1, ... of a span of count atoms *)
Span(start, count) == [i \in 1 .. count |-> start + i - 1]
LeftSpans(items) ==
    Concat([i \in 1 .. Len(items) |-> Span(items[i].left_start, items[i].left_count)])
RightSpans(items) ==
    Concat([i \in 1 .. Len(items) |-> Span(items[i].right_start, items[i].right_count)])

Reconstructs(items) ==
    /\ \A i \in 1 .. Len(items) : items[i].left_count >= 0 /\ items[i].right_count >= 0
    /\ LeftSpans(items) = Span(0, result.left.len)
    /\ RightSpans(items) = Span(0, result.right.len)

(* the default graph, Myers divide alone, Myers full alone with the default
   state size *)
ReconstructingConfig ==
    \/ input.algo \in {"myers", "divide_alone"}
    \/ input.algo = "myers_alone" /\ input.permitted_state_size = DefaultStateSize

(* C1: when diff_main returns rc Ok under the default graph, under Myers
   divide alone or under Myers full alone with a large budget, the left spans
   of result.chunks concatenate to atoms 0..L-1 of the left root and the
   right spans to atoms 0..R-1 of the right root. *)
C1_Reconstruction ==
    (ReturnedOk /\ ReconstructingConfig) => Reconstructs(Chunks)

C1_Witness ==
    /\ ReturnedOk /\ ReconstructingConfig
    /\ result.left.len >= 2 /\ result.right.len >= 2
    /\ Len(Chunks) >= 3
    /\ Reconstructs(Chunks)

(* the three types of a chunk; the paired atoms of an equal chunk are the
   same by diff_atom_same *)
PairedSame(c) ==
    \A k \in 0 .. c.left_count - 1 :
        /\ c.left_start + k >= 0 /\ c.left_start + k < result.left.len
        /\ c.right_start + k >= 0 /\ c.right_start + k < result.right.len
        /\ diff_atom_same(input.left, result.left.items[c.left_start + k + 1],
                          input.right, result.right.items[c.right_start + k + 1])
(* the counts are unsigned: n >= 1 is n # 0 *)
IsEqualChunk(c) == c.left_count = c.right_count /\ c.left_count # 0 /\ PairedSame(c)
IsDeletion(c) == c.left_count # 0 /\ c.right_count = 0
IsInsertion(c) == c.left_count = 0 /\ c.right_count # 0
IsEmptyChunk(c) == c.left_count = 0 /\ c.right_count = 0

(* C2 as stated: after diff_main returned Ok every chunk of result.chunks is
   an equal chunk (equal counts >= 1, paired atoms the same), a deletion
   (right count 0) or an insertion (left count 0); none has both counts
   zero. *)
C2_ChunkTyping ==
    ReturnedOk =>
        \A i \in 1 .. Len(Chunks) :
            IsEqualChunk(Chunks[i]) \/ IsDeletion(Chunks[i]) \/ IsInsertion(Chunks[i])

(* C2 amended: after diff_main returned Ok every chunk of result.chunks is
   an equal chunk, a deletion, an insertion or an empty chunk (both counts
   zero); none has unequal non-zero counts, and the paired atoms of an equal
   chunk are the same. *)
C2_ChunkTypingOrEmpty ==
    ReturnedOk =>
        \A i \in 1 .. Len(Chunks) :
            \/ IsEqualChunk(Chunks[i]) \/ IsDeletion(Chunks[i])
            \/ IsInsertion(Chunks[i]) \/ IsEmptyChunk(Chunks[i])

(* the zero-length mid-snake of diff_algo_myers_divide in a result that also
   holds an equal chunk *)
C2_Witness ==
    /\ ReturnedOk
    /\ \E i \in 1 .. Len(Chunks) : IsEmptyChunk(Chunks[i])
    /\ \E i \in 1 .. Len(Chunks) : IsEqualChunk(Chunks[i])
    /\ \E i \in 1 .. Len(Chunks) : IsDeletion(Chunks[i])

(* C3: at every point of a diff_main run and in the returned result, every
   chunk of result.chunks is solved. *)
C3_NoUnsolvedInResult ==
    \A i \in 1 .. Len(result.chunks.items) : result.chunks.items[i].solved

(* an unsolved chunk of temp_result was handed to the inner run, whose
   chunks are in the result *)
C3_Witness ==
    /\ pc = "run" /\ stack # <<>>
    /\ Top.phase = "loop" /\ Top.i >= 1
    /\ ~Top.temp.items[Top.i].solved
    /\ result.chunks.len >= 2

(* diff_main is over: it returned, or the process died *)
Over == pc \in {"done", "crashed"}

OneChunkCoversAll(c) ==
    /\ c.left_count = result.left.len /\ c.right_count = result.right.len
    /\ (c.left_count # 0 => c.left_start = 0)
    /\ (c.right_count # 0 => c.right_start = 0)

(* C4: for byte-identical inputs diff_main returns rc Ok and result.chunks
   is exactly one equal chunk covering all atoms of both sides. *)
C4_Identity ==
    (Over /\ input.atomize /\ input.left = input.right) =>
        /\ ReturnedOk
        /\ Len(Chunks) = 1
        /\ IsEqualChunk(Chunks[1]) /\ OneChunkCoversAll(Chunks[1])

(* C5: with exactly one input of zero atoms diff_main returns rc Ok and one
   deletion or insertion chunk covering all atoms of the other input; with
   both inputs empty it returns rc Ok and no chunk. *)
C5_Emptiness ==
    (Over /\ input.atomize /\ (input.left = <<>> \/ input.right = <<>>)) =>
        /\ ReturnedOk
        /\ IF input.left = <<>> /\ input.right = <<>>
           THEN Chunks = <<>>
           ELSE /\ Len(Chunks) = 1
                /\ IsDeletion(Chunks[1]) \/ IsInsertion(Chunks[1])
                /\ OneChunkCoversAll(Chunks[1])

(* the length of a longest common subsequence of left[i..] and right[j..] *)
RECURSIVE LcsLen(_, _, _, _, _)
LcsLen(cx, left, right, i, j) ==
    IF i >= left.len \/ j >= right.len THEN 0
    ELSE IF ViewSame(cx, left, right, i, j)
    THEN 1 + LcsLen(cx, left, right, i + 1, j + 1)
    ELSE Max(LcsLen(cx, left, right, i + 1, j), LcsLen(cx, left, right, i, j + 1))

(* the atoms in the deletion and insertion chunks of a chunk sequence *)
RECURSIVE EditedAtoms(_)
EditedAtoms(adds) ==
    IF adds = <<>> THEN 0
    ELSE (IF Head(adds).left_count = 0 \/ Head(adds).right_count = 0
          THEN Head(adds).left_count + Head(adds).right_count ELSE 0)
         + EditedAtoms(Tail(adds))

LastRunLcs == LcsLen(Context(input, result), lastRun.left, lastRun.right, 0, 0)

MyersSolved == lastRun.impl = "diff_algo_myers" /\ lastRun.rc = DIFF_RC_OK

(* C6: when diff_algo_myers solves a pair of atom sequences, the atoms in
   the deletion and insertion chunks it emits number L + R - 2 * LCS. *)
C6_MyersMinimal ==
    MyersSolved =>
        EditedAtoms(lastRun.adds) = lastRun.left.len + lastRun.right.len - 2 * LastRunLcs

C6_Witness ==
    /\ MyersSolved
    /\ lastRun.left.len >= 2 /\ lastRun.right.len >= 2
    /\ LastRunLcs >= 1
    /\ EditedAtoms(lastRun.adds) >= 2
    /\ EditedAtoms(lastRun.adds) = lastRun.left.len + lastRun.right.len - 2 * LastRunLcs

(* C7: for non-empty inputs in mapped memory, whatever max_recursion_depth
   is, a diff_main run ends by returning, and with rc Ok. *)
C7_ReturnsOk ==
    (Over /\ input.atomize /\ input.past # Unmapped
          /\ input.left # <<>> /\ input.right # <<>>) => ReturnedOk

(* C8: no diff_run_algo call returns DIFF_RC_USE_DIFF_ALGO_FALLBACK, and the
   rc stored in the result diff_main returns is never that code. *)
C8_NoFallbackLeak ==
    /\ \A f \in 1 .. Len(stack) :
          stack[f].phase = "ret" => stack[f].rc # DIFF_RC_USE_DIFF_ALGO_FALLBACK
    /\ Returned => result.rc # DIFF_RC_USE_DIFF_ALGO_FALLBACK

(* the only algorithm of a chain signalled the fallback, and diff_algo_none
   ran in its place *)
C8_Witness ==
    /\ ReturnedOk
    /\ input.algo = "myers_alone"
    /\ lastRun.fallbacks >= 1
    /\ lastRun.impl = "diff_algo_none"
    /\ Len(Chunks) >= 2

(* C9: whenever diff_main ends with rc other than Ok, result.chunks holds
   none of the chunks emitted before the failure. *)
C9_NoPartialResults ==
    (Returned /\ result.rc # DIFF_RC_OK) => Chunks = <<>>

(* C10: a line ending in CR LF yields one atom holding both bytes: no atom
   ends in a CR that the buffer follows with a LF (which would start the
   next atom). *)
C10_CRLFOneAtom ==
    pc = "atomized" =>
        \A i \in 1 .. Len(aatoms.items) :
            LET last == aatoms.items[i].at + aatoms.items[i].len
            IN ~(abuf[last] = CR /\ last < Len(abuf) /\ abuf[last + 1] = LF)

(* the atoms are non-empty and contiguous from offset 0 to the buffer length *)
AtomsTile(buf, items) ==
    /\ (items = <<>>) = (buf = <<>>)
    /\ \A i \in 1 .. Len(items) :
          /\ items[i].len >= 1
          /\ items[i].at = (IF i = 1 THEN 0 ELSE items[i - 1].at + items[i - 1].len)
    /\ items # <<>> => items[Len(items)].at + items[Len(items)].len = Len(buf)

(* the offset of the first CR or LF at or after offset at, Len(buf) if none *)
RECURSIVE FirstTerminator(_, _)
FirstTerminator(buf, at) ==
    IF at < Len(buf) /\ buf[at + 1] # CR /\ buf[at + 1] # LF
    THEN FirstTerminator(buf, at + 1) ELSE at

(* the atom ends behind the first terminator at or after its start (behind
   the LF of a CR LF also counts), or at the end of a buffer without one *)
EndsAtTerminator(buf, atom) ==
    LET t == FirstTerminator(buf, atom.at)
        e == atom.at + atom.len
    IN IF t = Len(buf) THEN e = Len(buf)
       ELSE e = t + 1 \/ (e = t + 2 /\ buf[t + 1] = CR /\ t + 1 < Len(buf) /\ buf[t + 2] = LF)

(* C11: the atoms of the line atomiser tile the buffer, each ends with the
   first line terminator at or after its start or at the end of the buffer,
   and no iteration reads the byte at or beyond the buffer end. *)
C11_AtomTiling ==
    /\ pc # "crashed"
    /\ aatoms.items # <<>> =>
          ~AtomizeLine(abuf, apast, aatoms.items[Len(aatoms.items)].at).overread
    /\ pc = "atomized" =>
          /\ AtomsTile(abuf, aatoms.items)
          /\ \A i \in 1 .. Len(aatoms.items) : EndsAtTerminator(abuf, aatoms.items[i])


(* C12: with permitted_state_size = 0 diff_algo_myers never returns
   DIFF_RC_USE_DIFF_ALGO_FALLBACK on account of its state size, whatever the
   lengths of its two views are *)
C12_ZeroMeansUnlimited ==
    (lastRun.impl = "diff_algo_myers" /\ input.permitted_state_size = 0)
        => lastRun.rc # DIFF_RC_USE_DIFF_ALGO_FALLBACK


(* C13: once diff_main has allocated its result, a missing atomize_func makes
   it return with rc = DIFF_RC_EINVAL, and an atomiser that returns a code
   other than DIFF_RC_OK makes it return with that code as rc; in both cases
   no algorithm is run and result.chunks stays empty *)
C13_ErrorsRunNoAlgorithm ==
    [][(pc = "start" /\ AllocOk(heap)) =>
         LET a == diff_atomize_text_by_line(input.left, input.right, input.past, FALSE,
                                            AfterAlloc(heap))
             failed == ~input.atomize \/ (pc' # "crashed" /\ a.rc # DIFF_RC_OK)
         IN failed =>
              /\ pc' = "done"
              /\ stack' = <<>>
              /\ lastRun' = NoRun
              /\ ~result'.null
              /\ result'.rc = (IF ~input.atomize THEN DIFF_RC_EINVAL ELSE a.rc)
              /\ result'.chunks.len = 0]_vars

C13_Witness ==
    /\ pc = "done"
    /\ input.atomize
    /\ ~result.null
    /\ result.rc = DIFF_RC_ENOMEM
    /\ result.left.len > 0
    /\ result.chunks.len = 0
    /\ lastRun = NoRun


(* C14: every chunk an algorithm passes to diff_state_add_chunk, those of
   diff_algo_none included, has left_start and right_start set to an atom
   position and never NULL, also on a side whose count is zero *)
C14_StartsNeverNull ==
    \A i \in 1 .. Len(lastRun.adds) :
        /\ lastRun.adds[i].left_start # NullAtom
        /\ lastRun.adds[i].right_start # NullAtom


(* the spans of items on both sides are the atoms 0 .. i-1 of the left root
   and 0 .. j-1 of the right root, for some i and j *)
CoversPrefix(items) ==
    /\ \A i \in 1 .. Len(items) : items[i].left_count >= 0 /\ items[i].right_count >= 0
    /\ Len(LeftSpans(items)) <= result.left.len
    /\ Len(RightSpans(items)) <= result.right.len
    /\ LeftSpans(items) = Span(0, Len(LeftSpans(items)))
    /\ RightSpans(items) = Span(0, Len(RightSpans(items)))

(* C15: at every point of a diff_main run result.chunks covers exactly a
   prefix of both roots, so that solved chunks are appended in reading order
   also when the chunks of nested runs come between those of an outer run *)
C15_Ordering == CoversPrefix(Chunks)


(* the last algorithm run was a diff_algo_patience that got past its test of
   unique_in_both_count *)
PatienceRan == lastRun.impl = "diff_algo_patience" /\ lastRun.rc = DIFF_RC_OK

(* chunk c lies inside the views of the last run, with counts that did not
   wrap around *)
InsideLastRun(c) ==
    /\ c.left_count >= 0 /\ c.right_count >= 0
    /\ c.left_start >= lastRun.left.head
    /\ c.left_start + c.left_count <= lastRun.left.head + lastRun.left.len
    /\ c.right_start >= lastRun.right.head
    /\ c.right_start + c.right_count <= lastRun.right.head + lastRun.right.len

(* C16: in the emission loop of diff_algo_patience left_idx >= left_pos and
   right_idx >= right_pos hold for every LCS anchor and for the trailing
   iteration, so that no section length wraps around and every chunk added,
   gap or anchor range, lies inside the left and right views *)
C16_PatienceNoWrap ==
    PatienceRan => \A i \in 1 .. Len(lastRun.adds) : InsideLastRun(lastRun.adds[i])

(* the marks and identical_lines ranges diff_algo_patience holds after its
   call of diff_atoms_swallow_identical_neighbors *)
PatienceSwallowed(cx, left, right) ==
    LET marks == diff_atoms_mark_unique_in_both(cx, left, right)
        none == [start |-> 0, end |-> 0]
        m0 == [uibl |-> marks.uibl, uibr |-> marks.uibr, pos |-> marks.pos,
               count |-> marks.count,
               idl |-> [i \in Idx(left) |-> none], idr |-> [j \in Idx(right) |-> none]]
    IN diff_atoms_swallow_identical_neighbors(cx, left, right, 0, 0, 0, m0)

RangesDisjoint(r1, r2) == r1.end <= r2.start \/ r2.end <= r1.start

(* C17: after the swallow phase of diff_algo_patience the identical_lines
   ranges of two distinct surviving common-unique anchors are disjoint on the
   left and disjoint on the right: no range was extended into a range another
   anchor had claimed *)
C17_SwallowDisjoint ==
    PatienceRan =>
        LET m == PatienceSwallowed(Context(input, result), lastRun.left, lastRun.right)
            anchors == {a \in Idx(lastRun.left) : m.uibl[a]}
        IN \A a, b \in anchors :
              a # b => /\ RangesDisjoint(m.idl[a], m.idl[b])
                       /\ RangesDisjoint(m.idr[m.pos[a]], m.idr[m.pos[b]])


(* mid_snake at the end of the search loop of diff_algo_myers_divide *)
MidSnake(cx, left, right, garbage) ==
    DivideSearch(cx, left, right, 0,
                 [i \in 1 .. 2 * (left.len + right.len + 1) |-> 0 - 1], ZeroBox, garbage)

DivideRan == lastRun.impl = "diff_algo_myers_divide"

(* box lies in the graph of left and right, is as long on the left as on the
   right, and pairs atoms that are the same *)
IsSnakeBox(cx, left, right, box) ==
    /\ 0 <= box.left_start /\ box.left_start <= box.left_end /\ box.left_end <= left.len
    /\ 0 <= box.right_start /\ box.right_start <= box.right_end
    /\ box.right_end <= right.len
    /\ box.left_end - box.left_start = box.right_end - box.right_start
    /\ \A i \in 0 .. (box.left_end - box.left_start - 1) :
          ViewSame(cx, left, right, box.left_start + i, box.right_start + i)

(* C18: whenever diff_algo_myers_divide accepts a meeting, the mid-snake box
   has 0 <= left_start <= left_end <= L and 0 <= right_start <= right_end <= R,
   is as long on the left as on the right, and left[left_start + i] is the
   same as right[right_start + i] for every i inside the box *)
C18_MidSnakeBox ==
    (DivideRan /\ lastRun.rc = DIFF_RC_OK) =>
        \A garbage \in Garbage :
            LET cx == Context(input, result)
                box == MidSnake(cx, lastRun.left, lastRun.right, garbage)
            IN ~diff_box_empty(box) => IsSnakeBox(cx, lastRun.left, lastRun.right, box)

(* C19: on two non-empty views diff_algo_myers_divide finds a meeting within
   its (L+R)/2 rounds of forward and backward search and returns DIFF_RC_OK,
   never DIFF_RC_USE_DIFF_ALGO_FALLBACK *)
C19_DivideMeets ==
    (DivideRan /\ lastRun.left.len > 0 /\ lastRun.right.len > 0)
        => lastRun.rc = DIFF_RC_OK


(* a run that accepted a mid-snake of at least one atom which starts behind
   the first left atom and ends before the last right atom *)
C18_Witness ==
    /\ DivideRan /\ lastRun.rc = DIFF_RC_OK
    /\ \E garbage \in Garbage :
          LET box == MidSnake(Context(input, result), lastRun.left, lastRun.right, garbage)
          IN /\ ~diff_box_empty(box)
             /\ box.left_start >= 1
             /\ box.left_end > box.left_start
             /\ box.right_end < lastRun.right.len
             /\ \E i \in 1 .. Len(lastRun.adds) :
                   lastRun.adds[i] = MidSnakeChunk(lastRun.left, lastRun.right, box)[1]


(* the views of frame i were built by diff_data_init_subsection from a first
   and a last atom inside the root tables and, for a nested run, inside the
   views of the calling run *)
FrameReadInTable(i) ==
    LET f == stack[i]
    IN /\ SubsectionDefined(result.left.items, f.left.head, f.left.len)
       /\ SubsectionDefined(result.right.items, f.right.head, f.right.len)
       /\ i > 1 =>
             LET parent == stack[i - 1]
             IN /\ f.left.head >= parent.left.head
                /\ f.left.head + f.left.len <= parent.left.head + parent.left.len
                /\ f.right.head >= parent.right.head
                /\ f.right.head + f.right.len <= parent.right.head + parent.right.len

(* C20: diff_main never builds a view by reading an atom outside the root's
   atom table: with an input of zero atoms diff_data_init_subsection is not
   made to read atom 0 or atom -1 of an empty or unallocated table, and the
   first and last atom of the view of every unsolved chunk lie inside the
   view of the calling run *)
C20_ViewsReadInTable ==
    pc = "run" => \A i \in 1 .. Len(stack) : FrameReadInTable(i)


PatienceOrDivideRan ==
    lastRun.impl \in {"diff_algo_patience", "diff_algo_myers_divide"}

(* c is the mid-snake chunk of the last run, a diff_algo_myers_divide *)
IsMidSnakeOfLastRun(c) ==
    /\ DivideRan
    /\ \E garbage \in Garbage :
          LET box == MidSnake(Context(input, result), lastRun.left, lastRun.right, garbage)
          IN ~diff_box_empty(box) /\ c = MidSnakeChunk(lastRun.left, lastRun.right, box)[1]

(* C21: every unsolved chunk an algorithm adds has left_count >= 1 and
   right_count >= 1 (the counts are unsigned: both are non-zero); a section
   with exactly one empty side is added as a solved chunk, and a section with
   both sides empty adds no chunk: the only chunk with two zero counts is a
   mid-snake of diff_algo_myers_divide *)
C21_UnsolvedNonEmpty ==
    \A i \in 1 .. Len(lastRun.adds) :
        LET c == lastRun.adds[i]
        IN /\ ~c.solved => (c.left_count # 0 /\ c.right_count # 0)
           /\ (IsDeletion(c) \/ IsInsertion(c)) => c.solved
           /\ IsEmptyChunk(c) => IsMidSnakeOfLastRun(c)

(* a run of Patience or Myers divide that added an unsolved section and a
   one-sided section *)
C21_Witness ==
    /\ PatienceOrDivideRan
    /\ \E i \in 1 .. Len(lastRun.adds) : ~lastRun.adds[i].solved
    /\ \E i \in 1 .. Len(lastRun.adds) :
          IsDeletion(lastRun.adds[i]) \/ IsInsertion(lastRun.adds[i])


(* a step that runs an algorithm for the frame on top and stays in
   diff_run_algo *)
ImplStep ==
    /\ pc = "run" /\ stack # <<>> /\ Top.phase = "call"
    /\ pc' = "run"

NewTop == stack'[Len(stack')]

(* C22: when the impl of an algorithm returns
   DIFF_RC_USE_DIFF_ALGO_FALLBACK, diff_run_algo runs fallback_algo on the
   same left and right views with the same recursion_depth_left, on a
   cleared temp_result, and returns the code of that run; without a
   fallback_algo that run is diff_algo_none on this state *)
C22_FallbackSameState ==
    [][ImplStep =>
         /\ lastRun'.rc = DIFF_RC_USE_DIFF_ALGO_FALLBACK =>
               /\ Len(stack') = Len(stack)
               /\ NewTop.phase = "call"
               /\ NewTop.algo = AlgoConfig(Top.algo).fallback_algo
               /\ NewTop.left = Top.left /\ NewTop.right = Top.right
               /\ NewTop.depth = Top.depth
               /\ result' = result
               /\ (NewTop.algo = AlgoNull => ImplOf(NewTop) = "diff_algo_none")
         /\ (lastRun.rc = DIFF_RC_USE_DIFF_ALGO_FALLBACK /\ lastRun.fallbacks > 0) =>
               /\ lastRun'.impl = ImplOf(Top)
               /\ lastRun'.left = Top.left /\ lastRun'.right = Top.right
               /\ \A j \in 1 .. Len(NewTop.temp.items) :
                     \E n \in 1 .. Len(lastRun'.adds) :
                         NewTop.temp.items[j] = lastRun'.adds[n]
               /\ NewTop.phase = "ret" => NewTop.rc = lastRun'.rc]_vars

(* a diff_algo_none that ran as the fallback of an algorithm without
   fallback_algo, on the views that algorithm had given up on *)
C22_Witness ==
    /\ lastRun.impl = "diff_algo_none"
    /\ lastRun.fallbacks >= 1
    /\ pc = "run" /\ stack # <<>>
    /\ Top.algo = AlgoNull /\ Top.depth > 0 /\ Top.phase = "ret"
    /\ lastRun.left = Top.left /\ lastRun.left.len >= 2
    /\ Len(lastRun.adds) >= 2


(* a step of the loop over temp_result that stays in diff_run_algo *)
LoopStep ==
    /\ InLoop /\ Top.i < Top.temp.len
    /\ pc' = "run"

(* C23: after an impl returned DIFF_RC_OK diff_run_algo walks temp_result in
   order: a solved chunk is copied to the end of result.chunks, and for an
   unsolved chunk inner_algo is run on sub-views that are exactly the left
   and right span of the chunk, with recursion_depth_left decreased by
   exactly 1 and never below 0; when that run returns DIFF_RC_OK the loop
   goes on with the next chunk *)
C23_LoopInOrder ==
    [][/\ LoopStep =>
            LET c == Top.temp.items[Top.i + 1]
            IN IF c.solved
               THEN /\ result'.chunks.items = Append(result.chunks.items, c)
                    /\ Len(stack') = Len(stack)
                    /\ NewTop = [Top EXCEPT !.i = Top.i + 1]
               ELSE /\ result' = result
                    /\ Len(stack') = Len(stack) + 1
                    /\ stack'[Len(stack)].i = Top.i
                    /\ stack'[Len(stack)].temp = Top.temp
                    /\ NewTop.phase = "call"
                    /\ NewTop.algo = AlgoConfig(Top.algo).inner_algo
                    /\ NewTop.left = View(c.left_start, c.left_count)
                    /\ NewTop.right = View(c.right_start, c.right_count)
                    /\ NewTop.depth = Top.depth - 1
                    /\ NewTop.depth >= 0
                    /\ NewTop.temp.len = 0
       /\ (pc = "run" /\ Len(stack) > 1 /\ Top.phase = "ret" /\ Top.rc = DIFF_RC_OK) =>
            /\ Len(stack') = Len(stack) - 1
            /\ NewTop = [stack[Len(stack) - 1] EXCEPT !.i = @ + 1, !.phase = "loop"]
            /\ result' = result]_vars

(* a nested run has returned into a loop that already copied a solved chunk
   and still has a chunk to go *)
C23_Witness ==
    /\ InLoop
    /\ Top.i >= 2 /\ Top.i < Top.temp.len
    /\ \E j \in 1 .. Top.i : ~Top.temp.items[j].solved
    /\ \E j \in 1 .. Top.i : Top.temp.items[j].solved
    /\ lastRun.left.len < Top.left.len


(* the solved chunks at the head of a temp_result, which the loop of
   diff_run_algo copies to result.chunks before it meets an unsolved chunk or
   the end, and the chunks behind them *)
RECURSIVE SolvedPrefix(_)
SolvedPrefix(items) ==
    IF items # <<>> /\ items[1].solved
    THEN <<items[1]>> \o SolvedPrefix(Tail(items))
    ELSE <<>>

Drained(chunks, temp) ==
    [chunks |-> chunks \o SolvedPrefix(temp),
     temp |-> SubSeq(temp, Len(SolvedPrefix(temp)) + 1, Len(temp))]

(* result.chunks and temp_result after an algorithm run that returned
   DIFF_RC_OK, drained: diff_run_algo returns from diff_algo_none at once,
   without a loop over temp_result, which it frees *)
DrainedAfterRun(impl, chunks, temp) ==
    IF impl = "diff_algo_none" THEN [chunks |-> chunks, temp |-> <<>>]
    ELSE Drained(chunks, temp)

(* the same for a diff_state_add_chunk without its direct write: every chunk
   of adds goes to temp_result *)
DrainedTempFirst(impl, chunks, adds) == DrainedAfterRun(impl, chunks, adds)

(* the same when only the chunks of diff_algo_myers, diff_algo_myers_divide
   and diff_algo_patience go to temp_result first *)
DrainedTempFirstImpls(impl, chunks, adds) ==
    IF impl = "diff_algo_none" THEN [chunks |-> chunks \o adds, temp |-> <<>>]
    ELSE Drained(chunks, adds)

OkImplStep == ImplStep /\ lastRun'.rc = DIFF_RC_OK

(* C24 as stated: the direct write of diff_state_add_chunk is unobservable:
   after every algorithm run that returned DIFF_RC_OK, result.chunks and the
   rest of temp_result are, once the solved chunks at the head of temp_result
   are drained, what they are when every chunk is written to temp_result
   first and drained by diff_run_algo; so the final result.chunks are the
   same *)
C24_DirectUnobservable ==
    [][OkImplStep =>
         DrainedAfterRun(lastRun'.impl, result'.chunks.items, NewTop.temp.items)
           = DrainedTempFirst(lastRun'.impl, result.chunks.items, lastRun'.adds)]_vars

(* C24 amended: the direct write is unobservable for the chunks of
   diff_algo_myers, diff_algo_myers_divide and diff_algo_patience: with
   these written to temp_result first and drained, and the chunks of
   diff_algo_none written directly, result.chunks and the rest of
   temp_result are the same after every run that returned DIFF_RC_OK *)
C24_DirectUnobservableForImpls ==
    [][OkImplStep =>
         DrainedAfterRun(lastRun'.impl, result'.chunks.items, NewTop.temp.items)
           = DrainedTempFirstImpls(lastRun'.impl, result.chunks.items, lastRun'.adds)]_vars

(* a run whose first chunks were written directly into result.chunks and
   whose later chunks went to temp_result *)
C24_Witness ==
    /\ InLoop /\ Top.i = 0
    /\ PatienceOrDivideRan /\ lastRun.rc = DIFF_RC_OK
    /\ lastRun.left = Top.left /\ lastRun.right = Top.right
    /\ lastRun.adds[1].solved
    /\ Top.temp.len >= 2
    /\ Len(lastRun.adds) > Top.temp.len


MyersRan == lastRun.impl = "diff_algo_myers"

LastRunMax == lastRun.left.len + lastRun.right.len

(* C25 as stated: diff_algo_myers returns DIFF_RC_USE_DIFF_ALGO_FALLBACK,
   before it adds any chunk, exactly when (L+R+1)^2 * sizeof(int) exceeds
   permitted_state_size, and runs the full trace on every smaller problem *)
C25_StateSizeTest ==
    MyersRan =>
        /\ lastRun.rc = DIFF_RC_USE_DIFF_ALGO_FALLBACK
              <=> (LastRunMax + 1) * (LastRunMax + 1) * SizeofInt
                    > input.permitted_state_size
        /\ lastRun.rc = DIFF_RC_USE_DIFF_ALGO_FALLBACK => lastRun.adds = <<>>
        /\ lastRun.rc \in {DIFF_RC_OK, DIFF_RC_USE_DIFF_ALGO_FALLBACK}

(* C25 amended: diff_algo_myers returns DIFF_RC_USE_DIFF_ALGO_FALLBACK,
   before it adds any chunk, exactly when (2(L+R)+1)^2 * sizeof(int) exceeds
   permitted_state_size, and runs the full trace on every smaller problem *)
C25_StateSizeTestOfKdBuf ==
    MyersRan =>
        /\ lastRun.rc = DIFF_RC_USE_DIFF_ALGO_FALLBACK
              <=> (2 * LastRunMax + 1) * (2 * LastRunMax + 1) * SizeofInt
                    > input.permitted_state_size
        /\ lastRun.rc = DIFF_RC_USE_DIFF_ALGO_FALLBACK => lastRun.adds = <<>>
        /\ lastRun.rc \in {DIFF_RC_OK, DIFF_RC_USE_DIFF_ALGO_FALLBACK}

(* a full trace on a problem whose state is exactly as large as permitted *)
C25_Witness ==
    /\ MyersRan /\ lastRun.rc = DIFF_RC_OK
    /\ (2 * LastRunMax + 1) * (2 * LastRunMax + 1) * SizeofInt = input.permitted_state_size
    /\ Len(lastRun.adds) >= 2

(* the recorded path from (d, k) back to d = 0: every step takes the predecessor
   the forward pass took, and is one move right or down followed by a snake *)
RECURSIVE BacktraceFollows(_, _, _, _, _)
BacktraceFollows(right, max, d, k, kd) ==
    LET kd_len == max + 1 + max
        col == max + d * kd_len
        prev == col - kd_len
        x == KdGet(kd, col + k)
        y == xk_to_y(x, k)
        kd2 == KdSet(KdSet(kd, col, x), col + 1, y)
        below == BacktraceFromBelow(x, y, k, kd2, prev)
        prev_k == IF below THEN k - 1 ELSE k + 1
        prev_x == KdGet(kd2, prev + prev_k)
        prev_y == xk_to_y(prev_x, prev_k)
        left_delta == x - prev_x
        right_delta == y - prev_y
    IN IF d <= 0 THEN k = 0 /\ x = y /\ x >= 0
       ELSE /\ below <=> ForwardFromBelow(right, d, k, kd2, prev)
            /\ left_delta >= 0 /\ right_delta >= 0
            /\ left_delta - right_delta = (IF below THEN 1 ELSE 0 - 1)
            /\ BacktraceFollows(right, max, d - 1, prev_k, kd2)

MyersTraced ==
    /\ MyersRan
    /\ ~MyersOverBudget(lastRun.left, lastRun.right, input.permitted_state_size)

(* C26: when diff_algo_myers passed its state size test, the backtrace takes at
   every step the predecessor diagonal the forward pass took, consecutive
   recorded endpoints are one right or down move followed by a snake, and the
   run returns DIFF_RC_OK, never DIFF_RC_USE_DIFF_ALGO_FALLBACK *)
C26_BacktraceFollowsForward ==
    MyersTraced =>
        LET left == lastRun.left
            right == lastRun.right
            max == left.len + right.len
            kd_len == max + 1 + max
            fw == MyersForward(Context(input, result), left, right, 0, 0,
                               [i \in 1 .. kd_len * kd_len + 1 |-> 0 - 1])
        IN /\ lastRun.rc = DIFF_RC_OK
           /\ BacktraceFollows(right, max, fw.backtrack_d, fw.backtrack_k, fw.kd)

C26_Witness ==
    /\ MyersTraced
    /\ lastRun.rc = DIFF_RC_OK
    /\ Len(lastRun.adds) >= 3
    /\ \E i \in 1 .. Len(lastRun.adds) : ~lastRun.adds[i].solved \/ lastRun.adds[i].left_count = 0
    /\ \E i \in 1 .. Len(lastRun.adds) : lastRun.adds[i].right_count = 0

(* chunks i .. j of a run's output are all deletions or insertions *)
NonEqualRun(adds, i, j) ==
    \A n \in i .. j : IsDeletion(adds[n]) \/ IsInsertion(adds[n])

(* C27: in the chunks diff_algo_myers emits, no insertion is immediately
   followed by a deletion, and within every run of non-equal chunks every
   deletion comes before every insertion *)
C27_DeletionFirst ==
    MyersRan =>
        LET adds == lastRun.adds
        IN /\ \A i \in 1 .. Len(adds) - 1 :
                  ~(IsInsertion(adds[i]) /\ IsDeletion(adds[i + 1]))
           /\ \A i \in 1 .. Len(adds) : \A j \in i + 1 .. Len(adds) :
                  NonEqualRun(adds, i, j) /\ IsInsertion(adds[i]) => ~IsDeletion(adds[j])

C27_Witness ==
    /\ MyersRan
    /\ lastRun.rc = DIFF_RC_OK
    /\ \E i \in 1 .. Len(lastRun.adds) - 1 :
           /\ IsDeletion(lastRun.adds[i])
           /\ IsInsertion(lastRun.adds[i + 1])
    /\ \E i \in 1 .. Len(lastRun.adds) - 1 :
           /\ IsInsertion(lastRun.adds[i])
           /\ ~IsInsertion(lastRun.adds[i + 1])

(* the backward steps of one d from diagonal c down: does every step on a
   diagonal of the graph derive its position from a diagonal of the graph? *)
RECURSIVE BackwardStaysInGraph(_, _, _, _, _, _, _)
BackwardStaysInGraph(cx, left, right, d, c, kd, garbage) ==
    LET L == left.len
        R == right.len
        delta == R - L
        fo == ForwardOrigin(L + R)
        bo == BackwardOrigin(L + R)
    IN IF c < 0 - d THEN TRUE
       ELSE IF c < 0 - L \/ c > R
       THEN c < 0 \/ BackwardStaysInGraph(cx, left, right, d, c - 2, kd, garbage)
       ELSE LET below == BackwardFromAbove(right, d, c, kd, bo)
                prev_c == IF below THEN c - 1 ELSE c + 1
                prev_x == IF d = 0 THEN garbage ELSE KdGet(kd, bo + prev_c)
                prev_y == IF d = 0 THEN garbage ELSE xc_to_y(prev_x, prev_c, delta)
                x0 == IF d = 0 THEN L ELSE IF below THEN prev_x ELSE prev_x - 1
                x == SlideBackward(cx, left, right, x0, c, delta)
                kd2 == KdSet(kd, bo + c, x)
                k == c_to_k(c, delta)
                forward_x == KdGet(kd2, fo + k)
                forward_y == xk_to_y(forward_x, k)
                inside == x >= 0 /\ x <= L /\ xc_to_y(x, c, delta) >= 0 /\ xc_to_y(x, c, delta) <= R
                meets == /\ inside /\ delta % 2 = 0 /\ k >= 0 - d /\ k <= d
                         /\ BackwardMeets(forward_x, forward_y, prev_x, prev_y, x)
            IN /\ d > 0 => (below => c - 1 >= 0 - L)
               /\ meets \/ BackwardStaysInGraph(cx, left, right, d, c - 2, kd2, garbage)

(* the same over the whole loop of diff_algo_myers_divide, from d on *)
RECURSIVE SearchStaysInGraph(_, _, _, _, _, _)
SearchStaysInGraph(cx, left, right, d, kd, garbage) ==
    IF d > (left.len + right.len) \div 2 THEN TRUE
    ELSE LET f == diff_divide_myers_forward(cx, left, right, d, d, kd, ZeroBox)
             b == diff_divide_myers_backward(cx, left, right, d, d, f.kd, f.box, garbage)
         IN \/ ~diff_box_empty(f.box)
            \/ /\ BackwardStaysInGraph(cx, left, right, d, d, f.kd, garbage)
               /\ \/ ~diff_box_empty(b.box)
                  \/ SearchStaysInGraph(cx, left, right, d + 1, b.kd, garbage)

(* C28: in every backward step of diff_algo_myers_divide on a diagonal c of
   the graph, the predecessor c - 1 is used only when c - 1 >= -L, so no
   position is derived from an entry of kd_backward that was never computed *)
C28_BackwardPredecessorInGraph ==
    DivideRan /\ lastRun.rc # DIFF_RC_ENOMEM =>
        \A garbage \in Garbage :
            SearchStaysInGraph(Context(input, result), lastRun.left, lastRun.right, 0,
                               [i \in 1 .. 2 * (lastRun.left.len + lastRun.right.len + 1) |-> 0 - 1],
                               garbage)

(* C29: the mid-snake diff_algo_myers_divide finds depends on the two atom
   sequences only, not on the values prev_x and prev_y hold before they are
   assigned *)
C29_DivideDeterministic ==
    DivideRan =>
        \A g1 \in Garbage : \A g2 \in Garbage :
            MidSnake(Context(input, result), lastRun.left, lastRun.right, g1)
                = MidSnake(Context(input, result), lastRun.left, lastRun.right, g2)

(* h = 23 * h + b over the bytes data[from + 1 .. to], over all of them or
   over those that are neither CR nor LF *)
RECURSIVE FoldBytes(_, _, _, _, _)
FoldBytes(data, from, to, h, terminators) ==
    IF from >= to THEN h
    ELSE LET b == data[from + 1]
         IN FoldBytes(data, from + 1, to,
                      IF terminators \/ (b # CR /\ b # LF) THEN 23 * h + b ELSE h,
                      terminators)

(* the unsigned int a hash record stands for *)
HashValue(hash) == hash.hi * HalfMod + hash.lo

(* C30 as stated: the hash stored for an atom is the fold h = 23 * h + b, from
   0, over every byte of the atom, its terminator bytes included *)
C30_HashOverAtom ==
    \A i \in 1 .. aatoms.len :
        LET atom == aatoms.items[i]
        IN HashValue(atom.hash) = FoldBytes(abuf, atom.at, atom.at + atom.len, 0, TRUE)

(* C30 amended: the hash stored for an atom is the fold h = 23 * h + b, from
   0, over the bytes of the atom that precede its terminator; the CR and LF
   bytes that end the atom are not folded in *)
C30_HashOverLineContent ==
    \A i \in 1 .. aatoms.len :
        LET atom == aatoms.items[i]
        IN HashValue(atom.hash) = FoldBytes(abuf, atom.at, atom.at + atom.len, 0, FALSE)

C30_Witness ==
    /\ pc = "atomized"
    /\ aatoms.len >= 1
    /\ \E i \in 1 .. aatoms.len :
           LET atom == aatoms.items[i]
           IN /\ atom.len = 3
              /\ abuf[atom.at + 3] \in {CR, LF}
              /\ HashValue(atom.hash) = 23 * 65 + 65

=============================================================================
